---- MODULE Spec2Model ----
(***************************************************************************)
(* Inverter Modbus-to-MQTT bridge (fetch_inverter_data.py): the paged      *)
(* register reader, the register decoder and telemetry mapper, the poll    *)
(* cycle with its change gate, the main loop with the per-device           *)
(* availability rule, the health probe, and the graceful shutdown.         *)
(*                                                                         *)
(* Time is wall-clock seconds as integers (the 0.5 s wait adds 0 or 1).   *)
(* Numbers produced by the decoder are fixed-point integers counting       *)
(* 1/Unit, so that 220.0 and 220 are the same value, as they are in        *)
(* Python.                                                                 *)
(*                                                                         *)
(* Spec is the program from the entry of main's loop on; SpecLoop is the   *)
(* same loop run on every outcome of a poll cycle; SpecRun adds publish    *)
(* calls that raise and the termination signal with graceful_exit;         *)
(* SpecProbe is the probe over every combination of the health facts;      *)
(* SpecAge is the availability rule and the probe over every poll          *)
(* interval; SpecDecode is process_register over every register value;     *)
(* SpecMapper is get_telemetry and the end of the cycle over complete and  *)
(* incomplete register maps; SpecReader is one read_modbus call against    *)
(* every sequence of transport answers; SpecBroker is the loop interleaved *)
(* with the broker's notifications and probe requests; SpecStart is main   *)
(* from its first line, where opening the transports may fail; SpecWatch   *)
(* is the loop with probe requests at any moment; SpecCycle is one         *)
(* iteration whose read_serial_data call finds the instrument set or not.  *)
(***************************************************************************)
EXTENDS Integers, Sequences, FiniteSets, TLC

\* ---------------------------------------------------------------- bounds
\* Main-loop iterations explored.
MaxIter == 4
\* Seconds an iteration may take beyond its mandatory sleeps.
MaxExtra == 1
\* time.time() when main() reaches the loop.
StartTime == 1
\* Seconds past maxAge that the probe inputs range over.
MaxOverAge == 2
\* Sleeps explored where publish calls may raise and signals arrive.
MaxRunIter == 1
\* Largest MQTT_UPDATE_INTERVAL explored where maxAge is the subject.
MaxPoll == 31

\* ------------------------------------------------------ program constants
FRAME_READ_RETRIES == 5
REGISTER_PAGE == 124
\* One, in the fixed-point numbers of the decoder (four decimal digits).
Unit == 10000

\* Values of MQTT_UPDATE_INTERVAL explored (an int from the environment,
\* not validated: a negative value reaches time.sleep as it is).
PollIntervals == {-1, 0, 30}

\* ------------------------------------------------------------ Python values
PyNone == [t |-> "None"]
PyInt(n) == [t |-> "int", v |-> n]
PyDict(f) == [t |-> "dict", v |-> f]
Returned(x) == [exc |-> "none", val |-> x]
Raised(e) == [exc |-> e, val |-> PyNone]

\* Nothing decoded yet in this cycle.
NotDecoded == [exc |-> "pending", val |-> PyNone]

\* The empty register map / empty list.
EmptyMap == [a \in {} |-> 0]

\* --------------------------------------------------------------- schema
\* The process_register calls of get_telemetry, in call order, each with the
\* key its value is stored under in feedback.
Schema ==
  <<
    [address |-> 277, decimals |-> 1, signed |-> FALSE, field |-> "battery_voltage"],
    [address |-> 278, decimals |-> 1, signed |-> TRUE, field |-> "battery_current"],
    [address |-> 279, decimals |-> 0, signed |-> TRUE, field |-> "battery_power"],
    [address |-> 280, decimals |-> 0, signed |-> FALSE, field |-> "battery_soc"],
    [address |-> 338, decimals |-> 1, signed |-> FALSE, field |-> "grid_input_voltage"],
    [address |-> 342, decimals |-> 1, signed |-> FALSE, field |-> "grid_line_voltage"],
    [address |-> 340, decimals |-> 0, signed |-> FALSE, field |-> "grid_power"],
    [address |-> 346, decimals |-> 1, signed |-> FALSE, field |-> "l1_voltage"],
    [address |-> 347, decimals |-> 1, signed |-> FALSE, field |-> "l1_current"],
    [address |-> 348, decimals |-> 0, signed |-> TRUE, field |-> "l1_power"],
    [address |-> 349, decimals |-> 0, signed |-> TRUE, field |-> "l1_apparent_power"],
    [address |-> 350, decimals |-> 0, signed |-> FALSE, field |-> "l1_load"],
    [address |-> 384, decimals |-> 1, signed |-> FALSE, field |-> "l2_voltage"],
    [address |-> 385, decimals |-> 1, signed |-> FALSE, field |-> "l2_current"],
    [address |-> 386, decimals |-> 0, signed |-> TRUE, field |-> "l2_apparent_power"],
    [address |-> 387, decimals |-> 0, signed |-> TRUE, field |-> "l2_power"],
    [address |-> 388, decimals |-> 0, signed |-> FALSE, field |-> "l2_load"],
    [address |-> 344, decimals |-> 0, signed |-> FALSE, field |-> "total_output_power"],
    [address |-> 256, decimals |-> 0, signed |-> FALSE, field |-> "total_output_load"],
    [address |-> 351, decimals |-> 1, signed |-> FALSE, field |-> "pv1_voltage"],
    [address |-> 352, decimals |-> 1, signed |-> FALSE, field |-> "pv1_current"],
    [address |-> 353, decimals |-> 0, signed |-> FALSE, field |-> "pv1_power"],
    [address |-> 389, decimals |-> 1, signed |-> FALSE, field |-> "pv2_voltage"],
    [address |-> 390, decimals |-> 1, signed |-> FALSE, field |-> "pv2_current"],
    [address |-> 391, decimals |-> 0, signed |-> FALSE, field |-> "pv2_power"],
    [address |-> 302, decimals |-> 0, signed |-> FALSE, field |-> "total_pv_power"],
    [address |-> 696, decimals |-> 0, signed |-> FALSE, field |-> "year"],
    [address |-> 697, decimals |-> 0, signed |-> FALSE, field |-> "month"],
    [address |-> 698, decimals |-> 0, signed |-> FALSE, field |-> "day"],
    [address |-> 699, decimals |-> 0, signed |-> FALSE, field |-> "hour"],
    [address |-> 700, decimals |-> 0, signed |-> FALSE, field |-> "minute"],
    [address |-> 701, decimals |-> 0, signed |-> FALSE, field |-> "second"],
    [address |-> 702, decimals |-> 2, signed |-> FALSE, field |-> "energy_today"],
    [address |-> 704, decimals |-> 2, signed |-> FALSE, field |-> "energy_year"],
    [address |-> 606, decimals |-> 1, signed |-> FALSE, field |-> "voltage_conf"],
    [address |-> 607, decimals |-> 0, signed |-> FALSE, field |-> "l2_power_conf"],
    [address |-> 608, decimals |-> 0, signed |-> FALSE, field |-> "frequency_conf"],
    [address |-> 638, decimals |-> 1, signed |-> FALSE, field |-> "floating_charging_voltage"],
    [address |-> 640, decimals |-> 1, signed |-> FALSE, field |-> "max_total_charging_current"],
    [address |-> 641, decimals |-> 1, signed |-> FALSE, field |-> "max_grid_charging_current"],
    [address |-> 644, decimals |-> 1, signed |-> FALSE, field |-> "soc_point_back_to_utility"],
    [address |-> 645, decimals |-> 1, signed |-> FALSE, field |-> "l1_cutoff_voltage"],
    [address |-> 646, decimals |-> 1, signed |-> FALSE, field |-> "l2_cutoff_voltage"]
    >>

FieldNames == {Schema[i].field : i \in 1..Len(Schema)}

Max(a, b) == IF a >= b THEN a ELSE b

\* ------------------------------------------------------- RegisterDecoder
\* 10 ** decimals
Pow10(decimals) == 10 ^ decimals

\* round(value / 10 ** decimals, decimals): the multiple of 10 ** -decimals
\* nearest to value / 10 ** decimals.  At a decimal tie Python rounds the
\* binary double, which lies below or above the tie: half_up says which.  A
\* register value (an integer) never meets a tie.
RoundTo(value, decimals, half_up) ==
    LET q == value \div Unit
        r == value % Unit
        k == IF 2 * r < Unit THEN q
             ELSE IF 2 * r > Unit THEN q + 1
             ELSE IF half_up THEN q + 1 ELSE q
    IN  k * (Unit \div Pow10(decimals))

\* Seeded fault: line 312 with 32768 in place of 32767.
process_register_sign_above_32768(register_map, address, decimals, signed, half_up) ==
    IF register_map.t # "dict" \/ address.t # "int" THEN Raised("TypeError")
    ELSE IF address.v \notin DOMAIN register_map.v THEN Raised("KeyError")
    ELSE LET raw == register_map.v[address.v]
             value == IF signed /\ raw > 32768 * Unit
                      THEN raw - 65536 * Unit ELSE raw
         IN  Returned(IF decimals > 0 THEN RoundTo(value, decimals, half_up)
                      ELSE value)

\* Seeded fault: line 316 with decimals > 1 in place of decimals > 0.
process_register_scale_above_one(register_map, address, decimals, signed, half_up) ==
    IF register_map.t # "dict" \/ address.t # "int" THEN Raised("TypeError")
    ELSE IF address.v \notin DOMAIN register_map.v THEN Raised("KeyError")
    ELSE LET raw == register_map.v[address.v]
             value == IF signed /\ raw > 32767 * Unit
                      THEN raw - 65536 * Unit ELSE raw
         IN  Returned(IF decimals > 1 THEN RoundTo(value, decimals, half_up)
                      ELSE value)

\* SolarInverter.process_register(self, register_map, address, decimals,
\* signed): value = register_map[address] subscripts its FIRST argument with
\* its second.  half_up is the direction of the double at a tie (see RoundTo).
process_register(register_map, address, decimals, signed, half_up) ==
    IF register_map.t # "dict" \/ address.t # "int" THEN Raised("TypeError")
    ELSE IF address.v \notin DOMAIN register_map.v THEN Raised("KeyError")
    ELSE LET raw == register_map.v[address.v]
             value == IF signed /\ raw > 32767 * Unit
                      THEN raw - 65536 * Unit ELSE raw
         IN  Returned(IF decimals > 0 THEN RoundTo(value, decimals, half_up)
                      ELSE value)

\* ------------------------------------------------------- TelemetryMapper
\* get_telemetry from its i-th process_register call on.  Every call site
\* passes (address, register_map, ...): the address first, the map second.
RECURSIVE get_telemetry_from(_, _, _)
get_telemetry_from(i, register_map, feedback) ==
    IF i > Len(Schema) THEN Returned(PyDict([normal |-> feedback]))
    ELSE LET e == Schema[i]
             r == process_register(PyInt(e.address), register_map,
                                   e.decimals, e.signed, FALSE)
         IN  IF r.exc # "none" THEN Raised(r.exc)
             ELSE get_telemetry_from(i + 1, register_map,
                                     (e.field :> r.val) @@ feedback)

\* Seeded fault: the calls made as (register_map, address, ...), and a field
\* whose address is missing left out of feedback.
RECURSIVE get_telemetry_from_skipping(_, _, _)
get_telemetry_from_skipping(i, register_map, feedback) ==
    IF i > Len(Schema) THEN Returned(PyDict([normal |-> feedback]))
    ELSE LET e == Schema[i]
             r == process_register(register_map, PyInt(e.address),
                                   e.decimals, e.signed, FALSE)
         IN  IF r.exc # "none"
             THEN get_telemetry_from_skipping(i + 1, register_map, feedback)
             ELSE get_telemetry_from_skipping(i + 1, register_map,
                                              (e.field :> r.val) @@ feedback)

get_telemetry_skipping(register_map) ==
    get_telemetry_from_skipping(1, register_map, EmptyMap)

\* get_telemetry(register_map), lines 324-468.
get_telemetry(register_map) == get_telemetry_from(1, register_map, EmptyMap)

\* ------------------------------------------------------------- PollCycle
\* What read_serial_data hands to main: a (data, ok) tuple, a bare None
\* (kind "None"), or an exception that leaves the function (kind "raise").
PollTuple(data, ok) == [kind |-> "tuple", data |-> data, ok |-> ok, exc |-> "none"]
PollBareNone == [kind |-> "None", data |-> PyNone, ok |-> FALSE, exc |-> "none"]
PollRaise(e) == [kind |-> "raise", data |-> PyNone, ok |-> FALSE, exc |-> e]

\* The errors the transport and the mapper raise; all derive from Exception.
ExceptionClasses == {"TypeError", "KeyError", "SerialException", "OSError"}

\* Seeded fault: the handler of line 537 narrowed to transport errors.
cycle_except_serial_only(e) == e \in {"SerialException", "OSError"}

\* except Exception as e (line 537)
cycle_except(e) == e \in ExceptionClasses

\* Seeded fault: the change gate of line 532 always open.
read_serial_data_finish_no_gate(tf, last_status) ==
    IF tf.exc # "none"
    THEN [result |-> IF cycle_except(tf.exc) THEN PollTuple(PyNone, FALSE)
                     ELSE PollRaise(tf.exc),
          last_status |-> last_status, settled |-> FALSE]
    ELSE IF tf.val.t = "None"
    THEN [result |-> PollTuple(PyNone, FALSE),
          last_status |-> last_status, settled |-> FALSE]
    ELSE LET log_data == PyDict([telemetry |-> tf.val])
         IN  IF TRUE
             THEN [result |-> PollTuple(log_data, TRUE),
                   last_status |-> log_data, settled |-> TRUE]
             ELSE [result |-> PollTuple(PyNone, TRUE),
                   last_status |-> last_status, settled |-> TRUE]

\* Seeded fault: the change gate of line 532 open on the first cycle only.
read_serial_data_finish_first_only(tf, last_status) ==
    IF tf.exc # "none"
    THEN [result |-> IF cycle_except(tf.exc) THEN PollTuple(PyNone, FALSE)
                     ELSE PollRaise(tf.exc),
          last_status |-> last_status, settled |-> FALSE]
    ELSE IF tf.val.t = "None"
    THEN [result |-> PollTuple(PyNone, FALSE),
          last_status |-> last_status, settled |-> FALSE]
    ELSE LET log_data == PyDict([telemetry |-> tf.val])
         IN  IF last_status.t = "None"
             THEN [result |-> PollTuple(log_data, TRUE),
                   last_status |-> log_data, settled |-> TRUE]
             ELSE [result |-> PollTuple(PyNone, TRUE),
                   last_status |-> last_status, settled |-> TRUE]

\* Seeded fault: the handler of line 537 also clears last_status.
read_serial_data_finish_forgetting(tf, last_status) ==
    IF tf.exc # "none"
    THEN [result |-> IF cycle_except(tf.exc) THEN PollTuple(PyNone, FALSE)
                     ELSE PollRaise(tf.exc),
          last_status |-> PyNone, settled |-> FALSE]
    ELSE IF tf.val.t = "None"
    THEN [result |-> PollTuple(PyNone, FALSE),
          last_status |-> last_status, settled |-> FALSE]
    ELSE LET log_data == PyDict([telemetry |-> tf.val])
         IN  IF last_status.t = "None" \/ last_status # log_data
             THEN [result |-> PollTuple(log_data, TRUE),
                   last_status |-> log_data, settled |-> TRUE]
             ELSE [result |-> PollTuple(PyNone, TRUE),
                   last_status |-> last_status, settled |-> TRUE]

\* read_serial_data from line 522 on, given what the try block produced up
\* to there: tf is get_telemetry's result, or the error raised before it.
\* Yields the value handed to main and the new last_status.
read_serial_data_finish(tf, last_status) ==
    IF tf.exc # "none"
    THEN [result |-> IF cycle_except(tf.exc) THEN PollTuple(PyNone, FALSE)
                     ELSE PollRaise(tf.exc),
          last_status |-> last_status, settled |-> FALSE]
    ELSE IF tf.val.t = "None"
    THEN [result |-> PollTuple(PyNone, FALSE),
          last_status |-> last_status, settled |-> FALSE]
    ELSE LET log_data == PyDict([telemetry |-> tf.val])
         IN  IF last_status.t = "None" \/ last_status # log_data
             THEN [result |-> PollTuple(log_data, TRUE),
                   last_status |-> log_data, settled |-> TRUE]
             ELSE [result |-> PollTuple(PyNone, TRUE),
                   last_status |-> last_status, settled |-> TRUE]

\* --------------------------------------------------- AvailabilityTracker
\* Seeded fault: line 72 without the margin of 5.
_compute_max_age_seconds_no_margin(interval) ==
    LET cycle_pause == interval
        expected_cycle == Max(cycle_pause, 0)
    IN  Max(15, expected_cycle * 3)

_compute_max_age_seconds(interval) ==
    LET cycle_pause == interval
        expected_cycle == Max(cycle_pause, 0)
    IN  Max(15, expected_cycle * 3 + 5)

Msg(topic, payload, retain) == [topic |-> topic, payload |-> payload, retain |-> retain]

TopicProcess == "{base}/availability"
TopicAvailability == "{base}/inverter-{id}/availability"
TopicHeartbeat == "{base}/inverter-{id}/heartbeat"
TopicSensors == "{base}/inverter-{id}/sensors"

\* Seeded fault: the desired state published whether or not it differs from
\* the stored one (line 233 left out).
_publish_inverter_availability_always(inverter, now, interval, client) ==
    IF ~client.present THEN [inverter |-> inverter, sent |-> <<>>]
    ELSE LET max_age == _compute_max_age_seconds(interval)
             last_success == inverter.last_success_ts
             is_online == last_success > 0 /\ (now - last_success) <= max_age
             desired == IF is_online THEN "online" ELSE "offline"
         IN  [inverter |-> [inverter EXCEPT !.availability = desired],
              sent |-> <<Msg(TopicAvailability, desired, FALSE)>>]

\* Seeded fault: line 230 with < in place of <=.
_publish_inverter_availability_strict(inverter, now, interval, client) ==
    IF ~client.present THEN [inverter |-> inverter, sent |-> <<>>]
    ELSE LET max_age == _compute_max_age_seconds(interval)
             last_success == inverter.last_success_ts
             is_online == last_success > 0 /\ (now - last_success) < max_age
             desired == IF is_online THEN "online" ELSE "offline"
         IN  IF inverter.availability # desired
             THEN [inverter |-> [inverter EXCEPT !.availability = desired],
                   sent |-> <<Msg(TopicAvailability, desired, FALSE)>>]
             ELSE [inverter |-> inverter, sent |-> <<>>]

\* _publish_inverter_availability(inverter, now): the inverter record
\* afterwards and the messages published.
_publish_inverter_availability(inverter, now, interval, client) ==
    IF ~client.present THEN [inverter |-> inverter, sent |-> <<>>]
    ELSE LET max_age == _compute_max_age_seconds(interval)
             last_success == inverter.last_success_ts
             is_online == last_success > 0 /\ (now - last_success) <= max_age
             desired == IF is_online THEN "online" ELSE "offline"
         IN  IF inverter.availability # desired
             THEN [inverter |-> [inverter EXCEPT !.availability = desired],
                   sent |-> <<Msg(TopicAvailability, desired, FALSE)>>]
             ELSE [inverter |-> inverter, sent |-> <<>>]

\* ------------------------------------------------------------ health probe
\* _serial_is_open()
_serial_is_open(instrument) ==
    IF ~instrument.present THEN FALSE
    ELSE IF ~instrument.serial THEN FALSE
    ELSE IF instrument.api = "is_open" THEN instrument.open
    ELSE IF instrument.api = "isOpen"
         THEN (IF instrument.raises THEN FALSE ELSE instrument.open)
    ELSE FALSE

\* _mqtt_loop_running()
_mqtt_loop_running(client) ==
    IF ~client.present THEN FALSE
    ELSE client.thread = "alive"

\* Seeded fault: line 89 with <= in place of <.
do_GET_le(path, connected, client, instrument, now, last_ts, interval) ==
    IF path # "/health" THEN 404
    ELSE LET max_age == _compute_max_age_seconds(interval)
             healthy == /\ connected
                        /\ _mqtt_loop_running(client)
                        /\ _serial_is_open(instrument)
                        /\ (now - last_ts) <= max_age
         IN  IF healthy THEN 200 ELSE 503

\* Seeded fault: line 89 left out.
do_GET_no_age(path, connected, client, instrument, now, last_ts, interval) ==
    IF path # "/health" THEN 404
    ELSE LET healthy == /\ connected
                        /\ _mqtt_loop_running(client)
                        /\ _serial_is_open(instrument)
         IN  IF healthy THEN 200 ELSE 503

\* HealthHandler.do_GET: the status code sent.
do_GET(path, connected, client, instrument, now, last_ts, interval) ==
    IF path # "/health" THEN 404
    ELSE LET max_age == _compute_max_age_seconds(interval)
             healthy == /\ connected
                        /\ _mqtt_loop_running(client)
                        /\ _serial_is_open(instrument)
                        /\ (now - last_ts) < max_age
         IN  IF healthy THEN 200 ELSE 503

\* -------------------------------------------------------------- MainLoop
\* Seeded fault: line 663 assigns 1 instead of adding 1.
on_poll_success_reset(inverter, now) ==
    LET counted == [inverter EXCEPT !.last_success_ts = now,
                                    !.publish_counter = 1]
        heartbeat_payload == [last_publish |-> now,
                              publish_counter |-> counted.publish_counter]
    IN  [inverter |-> [counted EXCEPT !.availability = "online"],
         sent |-> <<Msg(TopicHeartbeat, heartbeat_payload, FALSE),
                    Msg(TopicAvailability, "online", FALSE)>>]

\* main, lines 660-682: a successful poll is accounted and announced.
on_poll_success(inverter, now) ==
    LET counted == [inverter EXCEPT !.last_success_ts = now,
                                    !.publish_counter = @ + 1]
        heartbeat_payload == [last_publish |-> now,
                              publish_counter |-> counted.publish_counter]
    IN  [inverter |-> [counted EXCEPT !.availability = "online"],
         sent |-> <<Msg(TopicHeartbeat, heartbeat_payload, FALSE),
                    Msg(TopicAvailability, "online", FALSE)>>]

\* if log_data: a dict with a key is true, None is false.
Truthy(x) == x.t = "dict" /\ DOMAIN x.v # {}

\* Seeded fault: line 660 tests the data as well as the flag.
poll_succeeded_with_data(r) == r.ok /\ Truthy(r.data)

\* Seeded fault: line 660 taken whatever the flag.
poll_succeeded_always(r) == TRUE

\* if poll_success: (line 660)
poll_succeeded(r) == r.ok

\* main, lines 684-690: payload = {**log_data}; publish(topic, dumps(payload)),
\* retain left at the client's default (False).
publish_sensors(log_data) ==
    IF Truthy(log_data) THEN <<Msg(TopicSensors, log_data.v, FALSE)>> ELSE <<>>

\* Seeded fault: line 694 moved under if poll_success.
main_body_pulse_on_success(r, now, inverter, last_ts, interval, client) ==
    IF r.kind = "raise"
    THEN [inverter |-> inverter, last_update_ts |-> last_ts,
          sent |-> <<>>, exc |-> r.exc]
    ELSE IF r.kind = "None"
    THEN [inverter |-> inverter, last_update_ts |-> last_ts,
          sent |-> <<>>, exc |-> "TypeError"]
    ELSE LET acc == IF poll_succeeded(r) THEN on_poll_success(inverter, now)
                    ELSE [inverter |-> inverter, sent |-> <<>>]
             av == _publish_inverter_availability(acc.inverter, now,
                                                  interval, client)
         IN  [inverter |-> av.inverter,
              last_update_ts |-> IF poll_succeeded(r) THEN now ELSE last_ts,
              sent |-> acc.sent \o publish_sensors(r.data) \o av.sent
                       \o (IF poll_succeeded(r)
                           THEN <<Msg(TopicProcess, "online", FALSE)>>
                           ELSE <<>>),
              exc |-> "none"]

\* Seeded fault: line 661 left out, the process-wide timestamp keeps its
\* start value.
main_body_device_only(r, now, inverter, last_ts, interval, client) ==
    IF r.kind = "raise"
    THEN [inverter |-> inverter, last_update_ts |-> last_ts,
          sent |-> <<>>, exc |-> r.exc]
    ELSE IF r.kind = "None"
    THEN [inverter |-> inverter, last_update_ts |-> last_ts,
          sent |-> <<>>, exc |-> "TypeError"]
    ELSE LET acc == IF poll_succeeded(r) THEN on_poll_success(inverter, now)
                    ELSE [inverter |-> inverter, sent |-> <<>>]
             av == _publish_inverter_availability(acc.inverter, now,
                                                  interval, client)
         IN  [inverter |-> av.inverter,
              last_update_ts |-> last_ts,
              sent |-> acc.sent \o publish_sensors(r.data) \o av.sent
                       \o <<Msg(TopicProcess, "online", FALSE)>>,
              exc |-> "none"]

\* One pass through the try block of the main loop, lines 654-694, given what
\* read_serial_data handed back and the time read at line 658: the new
\* inverter record and last_update_ts, the messages published in order, and
\* the exception that left the block.
main_body(r, now, inverter, last_ts, interval, client) ==
    IF r.kind = "raise"
    THEN [inverter |-> inverter, last_update_ts |-> last_ts,
          sent |-> <<>>, exc |-> r.exc]
    ELSE IF r.kind = "None"
    THEN [inverter |-> inverter, last_update_ts |-> last_ts,
          sent |-> <<>>, exc |-> "TypeError"]
    ELSE LET acc == IF poll_succeeded(r) THEN on_poll_success(inverter, now)
                    ELSE [inverter |-> inverter, sent |-> <<>>]
             av == _publish_inverter_availability(acc.inverter, now,
                                                  interval, client)
         IN  [inverter |-> av.inverter,
              last_update_ts |-> IF poll_succeeded(r) THEN now ELSE last_ts,
              sent |-> acc.sent \o publish_sensors(r.data) \o av.sent
                       \o <<Msg(TopicProcess, "online", FALSE)>>,
              exc |-> "none"]

\* The publish calls of an iteration, by the line they are made at: 670
\* (heartbeat), 676 (online), 688 (sensors), 235 (availability), 694
\* (process).  "none": every publish call returns.
PublishFaults ==
    {"none", "heartbeat", "online", "sensors", "availability", "process"}

\* The try block of the main loop, lines 654-694, when the publish call named
\* by fail raises (paho raises ValueError for a topic or payload it refuses):
\* what was assigned and published before the call stays.
main_body_raising(r, now, inverter, last_ts, interval, client, fail) ==
    IF r.kind = "raise"
    THEN [inverter |-> inverter, last_update_ts |-> last_ts,
          sent |-> <<>>, exc |-> r.exc]
    ELSE IF r.kind = "None"
    THEN [inverter |-> inverter, last_update_ts |-> last_ts,
          sent |-> <<>>, exc |-> "TypeError"]
    ELSE LET ok == poll_succeeded(r)
             ts == IF ok THEN now ELSE last_ts
             counted == IF ok
                        THEN [inverter EXCEPT !.last_success_ts = now,
                                              !.publish_counter = @ + 1]
                        ELSE inverter
             heartbeat == Msg(TopicHeartbeat,
                              [last_publish |-> now,
                               publish_counter |-> counted.publish_counter],
                              FALSE)
             announced == IF ok THEN [counted EXCEPT !.availability = "online"]
                          ELSE inverter
             s1 == IF ok
                   THEN <<heartbeat, Msg(TopicAvailability, "online", FALSE)>>
                   ELSE <<>>
             s2 == s1 \o publish_sensors(r.data)
             av == _publish_inverter_availability(announced, now, interval,
                                                  client)
             s3 == s2 \o av.sent
             stop(inv, msgs) == [inverter |-> inv, last_update_ts |-> ts,
                                 sent |-> msgs, exc |-> "ValueError"]
         IN  IF ok /\ fail = "heartbeat" THEN stop(counted, <<>>)
             ELSE IF ok /\ fail = "online" THEN stop(counted, <<heartbeat>>)
             ELSE IF Truthy(r.data) /\ fail = "sensors" THEN stop(announced, s1)
             ELSE IF av.sent # <<>> /\ fail = "availability"
                  THEN stop(announced, s2)
             ELSE IF fail = "process" THEN stop(av.inverter, s3)
             ELSE [inverter |-> av.inverter, last_update_ts |-> ts,
                   sent |-> s3 \o <<Msg(TopicProcess, "online", FALSE)>>,
                   exc |-> "none"]

\* What an iteration can raise: the poll cycle's classes and the publish
\* calls' ValueError, which time.sleep raises too for a negative interval.
LoopExceptionClasses == ExceptionClasses \cup {"ValueError"}

\* Seeded fault: the handler of line 705 narrowed to transport errors.
loop_except_transport_only(e) == e \in {"SerialException", "OSError"}

\* except Exception as e (line 705): SystemExit, which sys.exit raises in
\* the signal handler, is not an Exception.
loop_except(e) == e \in LoopExceptionClasses

\* ----------------------------------------------------------- graceful_exit
\* What graceful_exit does, in order: publish calls and transport calls.
Published(m) == [call |-> "publish", msg |-> m]
Called(name) == [call |-> name, msg |-> Msg("", "", FALSE)]

\* The calls of graceful_exit that may raise, by what they do; "none": all
\* return.
ExitFaults == {"none", "process", "device", "disconnect"}

\* Seeded fault: the serial port closed before lines 118-127.
graceful_exit_close_first(client, instrument, inverter, fail) ==
    LET connected == client.present /\ client.connected
        m1 == Published(Msg(TopicProcess, "offline", TRUE))
        m2 == Published(Msg(TopicAvailability, "offline", FALSE))
        first == IF _serial_is_open(instrument)
                 THEN <<Called("serial.close")>> ELSE <<>>
        closed == IF _serial_is_open(instrument)
                  THEN [instrument EXCEPT !.open = FALSE] ELSE instrument
    IN  IF ~connected
        THEN [client |-> client, instrument |-> closed, effects |-> first,
              raised |-> "none"]
        ELSE [client |-> [client EXCEPT !.connected = FALSE,
                                        !.thread = "None"],
              instrument |-> closed,
              effects |-> first \o <<m1, m2, Called("disconnect"),
                                     Called("loop_stop")>>,
              raised |-> "none"]

\* graceful_exit, lines 116-136: the client and the instrument afterwards,
\* what was done in order, and the exception line 134 swallowed.  Line 123
\* subscripts app_state.inverter, which is {} until line 624.
graceful_exit(client, instrument, inverter, fail) ==
    LET connected == client.present /\ client.connected
        m1 == Published(Msg(TopicProcess, "offline", TRUE))
        m2 == Published(Msg(TopicAvailability, "offline", FALSE))
        serial(c, done) ==
            IF _serial_is_open(instrument)
            THEN [client |-> c,
                  instrument |-> [instrument EXCEPT !.open = FALSE],
                  effects |-> done \o <<Called("serial.close")>>,
                  raised |-> "none"]
            ELSE [client |-> c, instrument |-> instrument, effects |-> done,
                  raised |-> "none"]
        stop(done, e) == [client |-> client, instrument |-> instrument,
                          effects |-> done, raised |-> e]
    IN  IF ~connected THEN serial(client, <<>>)
        ELSE IF fail = "process" THEN stop(<<>>, "ValueError")
        ELSE IF "address" \notin DOMAIN inverter THEN stop(<<m1>>, "KeyError")
        ELSE IF fail = "device" THEN stop(<<m1>>, "ValueError")
        ELSE IF fail = "disconnect" THEN stop(<<m1, m2>>, "ValueError")
        ELSE serial([client EXCEPT !.connected = FALSE, !.thread = "None"],
                    <<m1, m2, Called("disconnect"), Called("loop_stop")>>)

\* ----------------------------------------------------------------- state
VARIABLES
    interval,       \* Config.MQTT_UPDATE_INTERVAL
    clock,          \* time.time()
    last_update_ts, \* global last_update_ts
    mqtt_connected, \* global mqtt_connected
    client,         \* app_state.mqtt_client
    instrument,     \* app_state.instrument and its serial port
    inverter,       \* app_state.inverter
    last_status,    \* SolarInverter.last_status
    pc,             \* where the main thread is
    rm,             \* read_modbus: start_address and pages of the call
    p,              \* read_modbus: page index
    ret,            \* read_modbus: attempts made on the page
    values,         \* read_modbus: values
    register_map,   \* read_serial_data: register_map
    result,         \* what read_serial_data handed to main
    now,            \* main: now
    sent,           \* messages published in the iteration, in order
    loop_exc,       \* exception that left lines 654-694 in the iteration
    iter,           \* iterations completed
    resp,           \* the probe's last answer
    dec,            \* a process_register call on its own: arguments, results
    shutdown,       \* graceful_exit: whether it ran, and what it did in order
    hist            \* history: what earlier steps saw

healthVars == <<interval, mqtt_connected, client, instrument>>
readerVars == <<rm, p, ret, values, register_map>>
loopVars == <<inverter, last_update_ts, now, sent, loop_exc>>
sideVars == <<dec, shutdown>>
vars == <<interval, clock, last_update_ts, mqtt_connected, client, instrument,
          inverter, last_status, pc, rm, p, ret, values, register_map, result,
          now, sent, loop_exc, iter, resp, dec, shutdown, hist>>

\* ------------------------------------------------------------- transport
\* Fill patterns of the pages the inverter answers with.
RawFills == {0, 65000}

\* A page of REGISTER_PAGE registers: register i holds (fill + i) mod 2^16.
Page(fill) == [i \in 1..REGISTER_PAGE |-> ((fill + i) % 65536) * Unit]

\* instrument.read_registers(page_address, REGISTER_PAGE, functioncode=3)
\* answers with a page or raises.
Responses == {Raised("OSError")} \cup {Returned(Page(f)) : f \in RawFills}

\* read_registers, lines 471-477: the values, or [] when the read raised.
read_registers(response) ==
    IF response.exc # "none" THEN <<>> ELSE response.val

\* {page_address + i: val for i, val in enumerate(values)} merged into
\* register_map (line 496).
merge_page(map, page_address, vals) ==
    LET new == {page_address + i - 1 : i \in 1..Len(vals)}
    IN  [a \in DOMAIN map \cup new |->
            IF a \in new THEN vals[a - page_address + 1] ELSE map[a]]

\* Seeded fault: line 487 makes one pass more.
retry_loop_continues_inclusive(attempts) == attempts <= FRAME_READ_RETRIES

\* for ret in range(self.FRAME_READ_RETRIES) (line 487): another pass follows
\* the given number of passes.
retry_loop_continues(attempts) == attempts < FRAME_READ_RETRIES

\* Seeded fault: line 482 with p + 1 in place of p.
page_address_of_next(call, page) == call.start + REGISTER_PAGE * (page + 1)

\* page_address = start_address + self.REGISTER_PAGE * p (line 482)
page_address_of(call, page) == call.start + REGISTER_PAGE * page

\* ----------------------------------------------------------------- start
NoResult == PollTuple(PyNone, FALSE)

\* What the history starts as: no cycle yet.
Hist0 ==
    [successes |-> 0,          \* cycles that reported success so far
     published |-> PyNone,     \* the last telemetry payload published
     before |-> [availability |-> "offline", last_status |-> PyNone,
                 publish_counter |-> 0, published |-> PyNone, successes |-> 0,
                 last_success_ts |-> 0, last_update_ts |-> 0, heartbeat |-> 0],
     decoded |-> NotDecoded,  \* what line 522 produced in this cycle
     stage |-> "none",         \* the stage that raised in this cycle
     readFailed |-> FALSE,     \* a register read raised in this cycle
     calls |-> 0,              \* read_modbus calls begun in this cycle
     attempts |-> 0,           \* read attempts made in this call
     pageLog |-> EmptyMap,     \* per page of this call: how its reads went
     cleanFails |-> TRUE,      \* every attempt on this page failed so far
     fills |-> {},             \* the pages the transport answered this cycle
     heartbeat |-> 0,          \* publish_counter of the last heartbeat sent
     guarded |-> FALSE,        \* a guard wait has passed since the last read
     read_at |-> 0,            \* the address of the last read attempt
     waits |-> 0,              \* 0.5 s waits taken in this call
     notified |-> "none",      \* the broker's last notification
     fatal |-> [stage |-> "none", exc |-> "none"]]
                               \* the startup stage that raised, and the error

\* pyserial >= 3: the port object has is_open and is open once constructed.
OpenInstrument ==
    [present |-> TRUE, serial |-> TRUE, api |-> "is_open", open |-> TRUE,
     raises |-> FALSE]

\* paho after connect() and loop_start(): the network thread runs; the
\* broker's CONNACK has not been handled yet, so is_connected() is False.
RunningClient == [present |-> TRUE, thread |-> "alive", connected |-> FALSE]

\* No process_register call made on its own.
NoCall ==
    [raw |-> 0, decimals |-> 0, signed |-> FALSE, half_up |-> FALSE,
     once |-> NotDecoded, twice |-> NotDecoded]

\* The probe has answered no request: path and status code of the last
\* answer, mqtt_connected as that request read it, and the status code of the
\* answer before.
NoResponse == [path |-> "", code |-> 0, connected |-> FALSE, prev |-> 0]

\* graceful_exit has not run.
NotShutDown ==
    [ran |-> FALSE, by_signal |-> FALSE, was_connected |-> FALSE,
     was_open |-> FALSE, raised |-> "none", effects |-> <<>>]

\* main, lines 619-632, done: the loop is about to start.
InitMain ==
    /\ interval \in PollIntervals
    /\ clock = StartTime
    /\ last_update_ts = StartTime
    /\ mqtt_connected = FALSE
    /\ client = RunningClient
    /\ instrument = OpenInstrument
    /\ inverter = [address |-> 1, last_success_ts |-> 0,
                   publish_counter |-> 0, availability |-> "offline"]
    /\ last_status = PyNone
    /\ rm = [start |-> 0, pages |-> 0]
    /\ p = 0
    /\ ret = 0
    /\ values = <<>>
    /\ register_map = EmptyMap
    /\ result = NoResult
    /\ now = StartTime
    /\ sent = <<>>
    /\ loop_exc = "none"
    /\ iter = 0
    /\ resp = NoResponse
    /\ dec = NoCall
    /\ shutdown = NotShutDown
    /\ hist = Hist0

Init == InitMain /\ pc = "cycle"

\* ------------------------------------------------------------- PollCycle
\* The iteration's history starts: what the iteration found.
HistAtCycle ==
    [hist EXCEPT !.before = [availability |-> inverter.availability,
                             last_status |-> last_status,
                             publish_counter |-> inverter.publish_counter,
                             published |-> hist.published,
                             successes |-> hist.successes,
                             last_success_ts |-> inverter.last_success_ts,
                             last_update_ts |-> last_update_ts,
                             heartbeat |-> hist.heartbeat],
                 !.decoded = NotDecoded, !.stage = "none", !.calls = 0,
                 !.readFailed = FALSE,
                 !.attempts = 0, !.pageLog = EmptyMap, !.cleanFails = TRUE,
                 !.fills = {}, !.read_at = 0, !.waits = 0]

\* read_serial_data returns (lines 522-539); main continues at line 658.
FinishCycle(tf, stage, h) ==
    LET fin == read_serial_data_finish(tf, last_status)
    IN  /\ result' = fin.result
        /\ last_status' = fin.last_status
        /\ clock' = IF fin.settled THEN clock + 1 ELSE clock
        /\ hist' = [h EXCEPT !.decoded = tf,
                             !.stage = IF tf.exc # "none" THEN stage ELSE "none",
                             !.successes = IF fin.result.ok THEN @ + 1 ELSE @]
        /\ pc' = "body"

\* read_serial_data, lines 501-518: the instrument check, the flush of the
\* serial buffers (which may raise), and the first read_modbus call begins.
read_serial_data_begin ==
    /\ pc = "cycle"
    /\ IF ~instrument.present
       THEN /\ result' = PollBareNone
            /\ pc' = "body"
            /\ hist' = HistAtCycle
            /\ UNCHANGED <<clock, last_status, readerVars>>
       ELSE \E flush \in {"none", "SerialException"} :
              IF flush # "none"
              THEN /\ FinishCycle(Raised(flush), "flush", HistAtCycle)
                   /\ UNCHANGED readerVars
              ELSE /\ register_map' = EmptyMap
                   /\ rm' = [start |-> 100, pages |-> 3]
                   /\ p' = 0
                   /\ pc' = "rm_page"
                   /\ hist' = [HistAtCycle EXCEPT !.calls = 1]
                   /\ UNCHANGED <<clock, last_status, result, ret, values>>
    /\ UNCHANGED <<healthVars, sideVars, loopVars, iter, resp>>

\* read_modbus, lines 480-485: the guard wait of page p, then its address.
read_modbus_page ==
    /\ pc = "rm_page"
    /\ p < rm.pages
    /\ clock' = clock + 1
    /\ values' = <<>>
    /\ ret' = 0
    /\ hist' = [hist EXCEPT !.cleanFails = TRUE, !.guarded = TRUE]
    /\ pc' = "rm_read"
    /\ UNCHANGED <<healthVars, sideVars, loopVars, iter, resp, last_status, rm, p,
                   register_map, result>>

\* read_modbus, lines 487-488: one pass of the retry loop; values is
\* overwritten by every pass.
read_modbus_attempt ==
    /\ pc = "rm_read"
    /\ retry_loop_continues(ret)
    /\ \E response \in Responses :
         /\ values' = read_registers(response)
         /\ hist' = [hist EXCEPT
                !.attempts = @ + 1,
                !.guarded = FALSE,
                !.read_at = page_address_of(rm, p),
                !.readFailed = @ \/ response.exc # "none",
                !.fills = IF response.exc = "none"
                          THEN @ \cup {response.val} ELSE @,
                !.cleanFails = IF ret + 1 < FRAME_READ_RETRIES
                               THEN @ /\ Len(read_registers(response)) = 0
                               ELSE @]
    /\ ret' = ret + 1
    /\ UNCHANGED <<healthVars, sideVars, loopVars, iter, resp, clock, last_status, pc,
                   rm, p, register_map, result>>

\* How the reads of a page went: "f4ok" when the first
\* FRAME_READ_RETRIES - 1 failed and the last answered, "allfail" when all
\* failed, "other" otherwise.
PageKind(cleanFails, vals) ==
    IF cleanFails THEN (IF Len(vals) > 0 THEN "f4ok" ELSE "allfail")
    ELSE "other"

\* read_modbus, lines 490-496, after the retry loop: break leaves the page
\* loop when values is not empty; otherwise the 0.5 s wait, the merge of
\* values into register_map, and the next page.
read_modbus_page_end ==
    /\ pc = "rm_read"
    /\ ~retry_loop_continues(ret)
    /\ hist' = [hist EXCEPT
           !.pageLog = (p :> [kind |-> PageKind(hist.cleanFails, values),
                              last |-> values]) @@ @,
           !.waits = IF Len(values) > 0 THEN @ ELSE @ + 1]
    /\ IF Len(values) > 0
       THEN /\ pc' = "rm_ret"
            /\ UNCHANGED <<clock, register_map, p>>
       ELSE /\ \E d \in {0, 1} : clock' = clock + d
            /\ register_map' = merge_page(register_map,
                                          page_address_of(rm, p), values)
            /\ p' = p + 1
            /\ pc' = IF p + 1 < rm.pages THEN "rm_page" ELSE "rm_ret"
    /\ UNCHANGED <<healthVars, sideVars, loopVars, iter, resp, last_status, rm, ret,
                   values, result>>

\* read_modbus returns to read_serial_data: line 519 begins the second call,
\* then line 522 maps the registers and the cycle finishes.
read_modbus_return ==
    /\ pc = "rm_ret"
    /\ IF hist.calls = 1
       THEN /\ rm' = [start |-> 600, pages |-> 1]
            /\ p' = 0
            /\ pc' = "rm_page"
            /\ hist' = [hist EXCEPT !.calls = 2, !.attempts = 0,
                                    !.pageLog = EmptyMap, !.waits = 0]
            /\ UNCHANGED <<clock, last_status, result>>
       ELSE /\ FinishCycle(get_telemetry(PyDict(register_map)), "map", hist)
            /\ UNCHANGED <<rm, p>>
    /\ UNCHANGED <<healthVars, sideVars, loopVars, iter, resp, ret, values, register_map>>

\* -------------------------------------------------------------- MainLoop
\* main, lines 657-694: the result is unpacked, the time read, the cycle
\* accounted and published.
main_iteration ==
    /\ pc = "body"
    /\ LET body == main_body(result, clock, inverter, last_update_ts,
                             interval, client)
       IN  /\ now' = clock
           /\ inverter' = body.inverter
           /\ last_update_ts' = body.last_update_ts
           /\ sent' = body.sent
           /\ loop_exc' = body.exc
           /\ hist' = [hist EXCEPT
                  !.published =
                      LET t == SelectSeq(body.sent,
                                         LAMBDA m : m.topic = TopicSensors)
                      IN  IF Len(t) > 0 THEN PyDict(t[Len(t)].payload) ELSE @,
                  !.heartbeat =
                      LET t == SelectSeq(body.sent,
                                         LAMBDA m : m.topic = TopicHeartbeat)
                      IN  IF Len(t) > 0 THEN t[Len(t)].payload.publish_counter
                          ELSE @]
    /\ pc' = "sleep"
    /\ UNCHANGED <<healthVars, sideVars, readerVars, clock, last_status, result, iter, resp>>

\* main, lines 696-707: sleep(1) and sleep(MQTT_UPDATE_INTERVAL), which
\* raises ValueError for a negative interval; the handler of line 705 waits
\* 10 s.  Then the next iteration.
loop_sleep ==
    /\ pc = "sleep"
    /\ iter < MaxIter
    /\ \E extra \in 0..MaxExtra :
         clock' = clock + extra +
                  (IF loop_exc # "none" THEN 10
                   ELSE IF interval < 0 THEN 1 + 10
                   ELSE 1 + interval)
    /\ iter' = iter + 1
    /\ pc' = "cycle"
    /\ UNCHANGED <<healthVars, sideVars, readerVars, loopVars, last_status, result, resp, hist>>

Next ==
    \/ read_serial_data_begin
    \/ read_modbus_page
    \/ read_modbus_attempt
    \/ read_modbus_page_end
    \/ read_modbus_return
    \/ main_iteration
    \/ loop_sleep

\* The program: main's loop over the serial transport.
Spec == Init /\ [][Next]_vars

\* ------------------------------------------- the loop over poll outcomes
\* Under Spec every cycle ends at line 539: read_modbus never stores a page
\* and the first process_register call of get_telemetry raises.  SpecLoop
\* runs the same loop actions on every outcome the try block of
\* read_serial_data can reach line 522 with, so that main's handling of a
\* successful cycle is exercised as well.
\* A telemetry document as get_telemetry builds it: every field of the
\* schema, here all 0 except battery_soc and battery_voltage.
Snapshot(soc, volts) ==
    PyDict([normal |-> [f \in FieldNames |->
                          IF f = "battery_soc" THEN soc * Unit
                          ELSE IF f = "battery_voltage" THEN volts * Unit
                          ELSE 0]])

\* What the try block of read_serial_data can have produced at line 522: a
\* telemetry document, or an error raised by the flush or by the mapper.
CycleOutcomes ==
    {Raised("SerialException"), Raised("TypeError"),
     Returned(Snapshot(50, 220)), Returned(Snapshot(51, 220)),
     Returned(Snapshot(50, 221))}

\* read_serial_data as main sees it: the function's own lines 522-539 run on
\* an outcome of the reads and the mapping.
read_serial_data_yields ==
    /\ pc = "cycle"
    /\ \E tf \in CycleOutcomes :
         FinishCycle(tf, IF tf.exc = "TypeError" THEN "map" ELSE "flush",
                     HistAtCycle)
    /\ UNCHANGED <<healthVars, sideVars, readerVars, loopVars, iter, resp>>

NextLoop ==
    \/ read_serial_data_yields
    \/ main_iteration
    \/ loop_sleep

\* main's loop over every outcome of a poll cycle.
SpecLoop == Init /\ [][NextLoop]_vars

\* ------------------------------- the loop with faults, broker and signals
\* main, lines 657-694 and 705-707, with publish calls that may raise: an
\* exception the handler of line 705 takes leads to the cooldown; any other
\* leaves the loop for the finally clause of line 713.
main_iteration_raising ==
    /\ pc = "body"
    /\ \E fail \in PublishFaults :
         LET body == main_body_raising(result, clock, inverter, last_update_ts,
                                       interval, client, fail)
         IN  /\ now' = clock
             /\ inverter' = body.inverter
             /\ last_update_ts' = body.last_update_ts
             /\ sent' = body.sent
             /\ loop_exc' = body.exc
             /\ hist' = [hist EXCEPT
                    !.published =
                        LET t == SelectSeq(body.sent,
                                           LAMBDA m : m.topic = TopicSensors)
                        IN  IF Len(t) > 0 THEN PyDict(t[Len(t)].payload) ELSE @,
                    !.heartbeat =
                        LET t == SelectSeq(body.sent,
                                           LAMBDA m : m.topic = TopicHeartbeat)
                        IN  IF Len(t) > 0 THEN t[Len(t)].payload.publish_counter
                            ELSE @]
             /\ pc' = IF body.exc = "none" \/ loop_except(body.exc)
                      THEN "sleep" ELSE "unwind"
    /\ UNCHANGED <<healthVars, sideVars, readerVars, clock, last_status, result,
                   iter, resp>>

\* SIGTERM or SIGINT reaches the main thread in the loop, or in main before
\* the loop once the broker client exists: graceful_exit(signum)
\* runs (lines 113-139) and sys.exit(0) raises SystemExit, which no handler
\* of main takes.
sigterm ==
    /\ pc \in {"init_serial", "startup", "cycle", "body", "sleep"}
    /\ \E fail \in ExitFaults :
         LET done == graceful_exit(client, instrument, inverter, fail)
         IN  /\ client' = done.client
             /\ instrument' = done.instrument
             /\ shutdown' = [ran |-> TRUE, by_signal |-> TRUE,
                             was_connected |-> client.present /\ client.connected,
                             was_open |-> _serial_is_open(instrument),
                             raised |-> done.raised,
                             effects |-> done.effects]
    /\ pc' = "unwind"
    /\ UNCHANGED <<interval, mqtt_connected, dec, readerVars, loopVars, clock,
                   last_status, result, iter, resp, hist>>

\* main, lines 713-714: the finally clause calls graceful_exit() once more
\* and the process ends.
main_finally ==
    /\ pc = "unwind"
    /\ \E fail \in ExitFaults :
         LET done == graceful_exit(client, instrument, inverter, fail)
         IN  /\ client' = done.client
             /\ instrument' = done.instrument
             /\ shutdown' =
                    IF shutdown.ran
                    THEN [shutdown EXCEPT !.effects = @ \o done.effects]
                    ELSE [ran |-> TRUE, by_signal |-> FALSE,
                          was_connected |-> client.present /\ client.connected,
                          was_open |-> _serial_is_open(instrument),
                          raised |-> done.raised,
                          effects |-> done.effects]
    /\ pc' = "exited"
    /\ UNCHANGED <<interval, mqtt_connected, dec, readerVars, loopVars, clock,
                   last_status, result, iter, resp, hist>>

\* The sleeps of lines 696-707, for the first MaxRunIter iterations.
loop_sleep_bounded == iter < MaxRunIter /\ loop_sleep

\* MQTT_UPDATE_INTERVAL where publish calls may raise: the default of line
\* 184, and a negative one, for which time.sleep raises.
RunIntervals == {-1, 30}

\* The loop is about to start; the broker's CONNACK has been handled or not.
InitRun ==
    /\ interval \in RunIntervals
    /\ clock = StartTime
    /\ last_update_ts = StartTime
    /\ client \in {RunningClient, [RunningClient EXCEPT !.connected = TRUE]}
    /\ mqtt_connected = client.connected
    /\ instrument = OpenInstrument
    /\ inverter = [address |-> 1, last_success_ts |-> 0,
                   publish_counter |-> 0, availability |-> "offline"]
    /\ last_status = PyNone
    /\ pc = "cycle"
    /\ rm = [start |-> 0, pages |-> 0]
    /\ p = 0
    /\ ret = 0
    /\ values = <<>>
    /\ register_map = EmptyMap
    /\ result = NoResult
    /\ now = StartTime
    /\ sent = <<>>
    /\ loop_exc = "none"
    /\ iter = 0
    /\ resp = NoResponse
    /\ dec = NoCall
    /\ shutdown = NotShutDown
    /\ hist = Hist0

NextRun ==
    \/ read_serial_data_yields
    \/ main_iteration_raising
    \/ loop_sleep_bounded
    \/ sigterm
    \/ main_finally

\* main's loop over every poll outcome, with publish calls that may raise and
\* the termination signal.
SpecRun == InitRun /\ [][NextRun]_vars

\* ------------------------------------------------------- the probe alone
ClientStates ==
    {[present |-> FALSE, thread |-> "None", connected |-> FALSE]} \cup
    {[present |-> TRUE, thread |-> t, connected |-> c] :
        t \in {"None", "alive", "dead"}, c \in BOOLEAN}

InstrumentStates ==
    {[present |-> FALSE, serial |-> FALSE, api |-> "none", open |-> FALSE,
      raises |-> FALSE],
     [present |-> TRUE, serial |-> FALSE, api |-> "none", open |-> FALSE,
      raises |-> FALSE]} \cup
    {[present |-> TRUE, serial |-> TRUE, api |-> a, open |-> o, raises |-> FALSE] :
        a \in {"is_open", "isOpen", "none"}, o \in BOOLEAN} \cup
    {[present |-> TRUE, serial |-> TRUE, api |-> "isOpen", open |-> o,
      raises |-> TRUE] : o \in BOOLEAN}

\* Seeded fault: the handler records the time of the request as the time of
\* the last update.
health_request_refreshing ==
    /\ \E path \in {"/health", "/"} :
         resp' = [path |-> path,
                  code |-> do_GET(path, mqtt_connected, client, instrument,
                                  clock, last_update_ts, interval),
                  connected |-> mqtt_connected,
                  prev |-> resp.code]
    /\ last_update_ts' = clock
    /\ UNCHANGED <<healthVars, sideVars, readerVars, inverter, now, sent,
                   loop_exc, clock, last_status, pc, result, iter, hist>>

\* HealthHandler.do_GET answers a request.
health_request ==
    /\ \E path \in {"/health", "/"} :
         resp' = [path |-> path,
                  code |-> do_GET(path, mqtt_connected, client, instrument,
                                  clock, last_update_ts, interval),
                  connected |-> mqtt_connected,
                  prev |-> resp.code]
    /\ UNCHANGED <<healthVars, sideVars, readerVars, loopVars, clock, last_status, pc,
                   result, iter, hist>>

\* Any health facts, any age of the last update up to MaxOverAge past maxAge.
InitProbe ==
    /\ interval \in PollIntervals
    /\ last_update_ts = StartTime
    /\ clock \in StartTime ..
                 StartTime + _compute_max_age_seconds(interval) + MaxOverAge
    /\ mqtt_connected \in BOOLEAN
    /\ client \in ClientStates
    /\ instrument \in InstrumentStates
    /\ inverter = [address |-> 1, last_success_ts |-> 0,
                   publish_counter |-> 0, availability |-> "offline"]
    /\ last_status = PyNone
    /\ pc = "serve"
    /\ rm = [start |-> 0, pages |-> 0]
    /\ p = 0
    /\ ret = 0
    /\ values = <<>>
    /\ register_map = EmptyMap
    /\ result = NoResult
    /\ now = StartTime
    /\ sent = <<>>
    /\ loop_exc = "none"
    /\ iter = 0
    /\ resp = NoResponse
    /\ dec = NoCall
    /\ shutdown = NotShutDown
    /\ hist = Hist0

NextProbe == health_request

\* The probe over every combination of the health facts.
SpecProbe == InitProbe /\ [][NextProbe]_vars

\* ------------------------------------------ the loop, broker and probe
\* Reason codes of a CONNACK: 0 accepted, 5 not authorised.
ReasonCodes == {0, 5}

\* Seeded fault: line 550 taken whatever the reason code.
reason_code_accepted_always(reason_code) == TRUE

\* if reason_code == 0: (line 550)
reason_code_accepted(reason_code) == reason_code = 0

\* on_mqtt_connect, lines 542-559, called by the client's network thread when
\* the broker answered a connect; is_connected() of the client is true from
\* an accepted connect on.
on_mqtt_connect ==
    /\ _mqtt_loop_running(client)
    /\ \E reason_code \in ReasonCodes :
         /\ mqtt_connected' = reason_code_accepted(reason_code)
         /\ client' = [client EXCEPT !.connected = (reason_code = 0)]
         /\ hist' = [hist EXCEPT !.notified =
                        IF reason_code = 0 THEN "connect:0" ELSE "connect:refused"]
    /\ UNCHANGED <<interval, instrument, sideVars, readerVars, loopVars, clock,
                   last_status, pc, result, iter, resp>>

\* on_mqtt_disconnect, lines 562-570, called by the client's network thread
\* when the connection ended.
on_mqtt_disconnect ==
    /\ _mqtt_loop_running(client)
    /\ mqtt_connected' = FALSE
    /\ client' = [client EXCEPT !.connected = FALSE]
    /\ hist' = [hist EXCEPT !.notified = "disconnect"]
    /\ UNCHANGED <<interval, instrument, sideVars, readerVars, loopVars, clock,
                   last_status, pc, result, iter, resp>>

NextBroker ==
    \/ read_serial_data_yields
    \/ main_iteration
    \/ loop_sleep_bounded
    \/ on_mqtt_connect
    \/ on_mqtt_disconnect
    \/ health_request

\* main's loop over every poll outcome, interleaved with the broker's
\* notifications and with probe requests.
SpecBroker == Init /\ [][NextBroker]_vars

\* --------------------------------------------- the loop and the probe
\* Iterations of the loop the probe is followed over.
MaxWatchIter == 2

\* The loop is about to start (lines 619-632 done) and the client's network
\* thread, started at line 585, has or has not yet delivered the broker's
\* answer to the connect.
InitWatch ==
    /\ interval \in PollIntervals
    /\ clock = StartTime
    /\ last_update_ts = StartTime
    /\ mqtt_connected \in BOOLEAN
    /\ client = [RunningClient EXCEPT !.connected = mqtt_connected]
    /\ instrument = OpenInstrument
    /\ inverter = [address |-> 1, last_success_ts |-> 0,
                   publish_counter |-> 0, availability |-> "offline"]
    /\ last_status = PyNone
    /\ pc = "cycle"
    /\ rm = [start |-> 0, pages |-> 0]
    /\ p = 0
    /\ ret = 0
    /\ values = <<>>
    /\ register_map = EmptyMap
    /\ result = NoResult
    /\ now = StartTime
    /\ sent = <<>>
    /\ loop_exc = "none"
    /\ iter = 0
    /\ resp = NoResponse
    /\ dec = NoCall
    /\ shutdown = NotShutDown
    /\ hist = Hist0

loop_sleep_watched == iter < MaxWatchIter /\ loop_sleep

NextWatch ==
    \/ read_serial_data_yields
    \/ main_iteration
    \/ loop_sleep_watched
    \/ health_request

\* main's loop over every poll outcome, with probe requests at any moment.
SpecWatch == InitWatch /\ [][NextWatch]_vars

\* ------------------------------------------- main from its first line on
\* app_state as AppState() constructs it (lines 27-29).
AbsentClient == [present |-> FALSE, thread |-> "None", connected |-> FALSE]
AbsentInstrument ==
    [present |-> FALSE, serial |-> FALSE, api |-> "none", open |-> FALSE,
     raises |-> FALSE]

\* What client.connect / loop_start can do: return, or raise paho's
\* MQTTException or an OSError of the socket.
ConnectOutcomes == {"none", "MQTTException", "OSError"}

\* What minimalmodbus.Instrument(...) can do: return with the port open, or
\* raise SerialException or another error (a ValueError for the address).
OpenOutcomes == {"none", "SerialException", "ValueError"}

\* initialize_mqtt, lines 573-587: the client returned, or the exception
\* that leaves the function; sys.exit(1) raises SystemExit.
initialize_mqtt(outcome) ==
    IF outcome = "none" THEN [client |-> RunningClient, exc |-> "none"]
    ELSE IF outcome = "MQTTException"
         THEN [client |-> AbsentClient, exc |-> "SystemExit"]
    ELSE [client |-> AbsentClient, exc |-> outcome]

\* initialize_serial, lines 590-612.
initialize_serial(outcome) ==
    IF outcome = "none" THEN [instrument |-> OpenInstrument, exc |-> "none"]
    ELSE IF outcome = "SerialException"
         THEN [instrument |-> AbsentInstrument, exc |-> "SystemExit"]
    ELSE [instrument |-> AbsentInstrument, exc |-> outcome]

\* Seeded fault: only SystemExit leaves the try block of line 618.
startup_continues_unless_exit(exc) == exc # "SystemExit"

\* The try block of line 618 goes on to its next statement when the call
\* returned; SystemExit passes the handlers of lines 709-711 and an Exception
\* is taken by line 711, both on the way to the finally clause.
startup_continues(exc) == exc = "none"

\* main, line 619.
main_initialize_mqtt ==
    /\ pc = "init_mqtt"
    /\ \E outcome \in ConnectOutcomes :
         LET r == initialize_mqtt(outcome)
         IN  /\ client' = r.client
             /\ hist' = IF r.exc = "none" THEN hist
                        ELSE [hist EXCEPT !.fatal = [stage |-> "mqtt",
                                                     exc |-> r.exc]]
             /\ pc' = IF startup_continues(r.exc) THEN "init_serial"
                      ELSE "unwind"
    /\ UNCHANGED <<interval, mqtt_connected, instrument, sideVars, readerVars,
                   loopVars, clock, last_status, result, iter, resp>>

\* main, line 620.
main_initialize_serial ==
    /\ pc = "init_serial"
    /\ \E outcome \in OpenOutcomes :
         LET r == initialize_serial(outcome)
         IN  /\ instrument' = r.instrument
             /\ hist' = IF r.exc = "none" THEN hist
                        ELSE [hist EXCEPT !.fatal = [stage |-> "serial",
                                                     exc |-> r.exc]]
             /\ pc' = IF startup_continues(r.exc) THEN "startup"
                      ELSE "unwind"
    /\ UNCHANGED <<interval, mqtt_connected, client, sideVars, readerVars,
                   loopVars, clock, last_status, result, iter, resp>>

\* main, lines 621-649: the device is announced offline, the inverter record
\* and last_update_ts are set, the probe's thread starts; without a client
\* line 621 raises.
main_startup ==
    /\ pc = "startup"
    /\ IF ~client.present
       THEN /\ loop_exc' = "AttributeError"
            /\ pc' = IF startup_continues("AttributeError") THEN "cycle"
                     ELSE "unwind"
            /\ UNCHANGED <<inverter, last_update_ts, now, sent>>
       ELSE /\ sent' = <<Msg(TopicAvailability, "offline", FALSE)>>
            /\ inverter' = [address |-> 1, last_success_ts |-> 0,
                            publish_counter |-> 0, availability |-> "offline"]
            /\ last_update_ts' = clock
            /\ pc' = "cycle"
            /\ UNCHANGED <<now, loop_exc>>
    /\ UNCHANGED <<healthVars, sideVars, readerVars, clock, last_status,
                   result, iter, resp, hist>>

\* The module is loaded and main() called: nothing is initialised.
InitStart ==
    /\ interval \in RunIntervals
    /\ clock = StartTime
    /\ last_update_ts = 0
    /\ mqtt_connected = FALSE
    /\ client = AbsentClient
    /\ instrument = AbsentInstrument
    /\ inverter = EmptyMap
    /\ last_status = PyNone
    /\ pc = "init_mqtt"
    /\ rm = [start |-> 0, pages |-> 0]
    /\ p = 0
    /\ ret = 0
    /\ values = <<>>
    /\ register_map = EmptyMap
    /\ result = NoResult
    /\ now = StartTime
    /\ sent = <<>>
    /\ loop_exc = "none"
    /\ iter = 0
    /\ resp = NoResponse
    /\ dec = NoCall
    /\ shutdown = NotShutDown
    /\ hist = Hist0

NextStart ==
    \/ main_initialize_mqtt
    \/ main_initialize_serial
    \/ main_startup
    \/ on_mqtt_connect
    \/ on_mqtt_disconnect
    \/ read_serial_data_yields
    \/ main_iteration
    \/ sigterm
    \/ main_finally

\* main from its first line to the end of the first iteration, with the
\* broker's notifications and the termination signal; an exception that
\* left the try block reaches the finally clause.
SpecStart == InitStart /\ [][NextStart]_vars /\ WF_vars(main_finally)

\* ------------------------------ one iteration, instrument set or not
\* read_serial_data called by line 657 with app_state.instrument as line 620
\* set it, or as AppState() constructed it (line 28).
InitCycle ==
    /\ interval \in PollIntervals
    /\ clock = StartTime
    /\ last_update_ts = StartTime
    /\ mqtt_connected = FALSE
    /\ client = RunningClient
    /\ instrument \in {OpenInstrument, AbsentInstrument}
    /\ inverter = [address |-> 1, last_success_ts |-> 0,
                   publish_counter |-> 0, availability |-> "offline"]
    /\ last_status = PyNone
    /\ pc = "cycle"
    /\ rm = [start |-> 0, pages |-> 0]
    /\ p = 0
    /\ ret = 0
    /\ values = <<>>
    /\ register_map = EmptyMap
    /\ result = NoResult
    /\ now = StartTime
    /\ sent = <<>>
    /\ loop_exc = "none"
    /\ iter = 0
    /\ resp = NoResponse
    /\ dec = NoCall
    /\ shutdown = NotShutDown
    /\ hist = Hist0

NextCycle ==
    \/ read_serial_data_begin
    \/ read_modbus_page
    \/ read_modbus_attempt
    \/ read_modbus_page_end
    \/ read_modbus_return
    \/ main_iteration

\* One iteration of main's loop over the serial transport.
SpecCycle == InitCycle /\ [][NextCycle]_vars

\* ------------------------------------------- the two users of maxAge
\* main, line 692, on its own: _publish_inverter_availability(inverter, now)
\* with now the time of the call.
evaluate_availability ==
    /\ pc = "serve"
    /\ LET av == _publish_inverter_availability(inverter, clock, interval,
                                                client)
       IN  /\ inverter' = av.inverter
           /\ sent' = av.sent
    /\ now' = clock
    /\ pc' = "evaluated"
    /\ UNCHANGED <<healthVars, sideVars, readerVars, clock, last_update_ts,
                   loop_exc, last_status, result, iter, resp, hist>>

\* Any poll interval from -1 to MaxPoll; the device never succeeded, or
\* succeeded at StartTime, as did the process; the time is within MaxOverAge
\* of maxAge after that.
InitAge ==
    /\ interval \in -1..MaxPoll
    /\ last_update_ts = StartTime
    /\ clock \in {StartTime + _compute_max_age_seconds(interval) + d :
                     d \in -MaxOverAge..MaxOverAge}
    /\ mqtt_connected \in BOOLEAN
    /\ client = [RunningClient EXCEPT !.connected = mqtt_connected]
    /\ instrument = OpenInstrument
    /\ inverter \in
          {[address |-> 1, last_success_ts |-> 0, publish_counter |-> 0,
            availability |-> "offline"]} \cup
          {[address |-> 1, last_success_ts |-> StartTime, publish_counter |-> 1,
            availability |-> a] : a \in {"online", "offline"}}
    /\ last_status = PyNone
    /\ pc = "serve"
    /\ rm = [start |-> 0, pages |-> 0]
    /\ p = 0
    /\ ret = 0
    /\ values = <<>>
    /\ register_map = EmptyMap
    /\ result = NoResult
    /\ now = StartTime
    /\ sent = <<>>
    /\ loop_exc = "none"
    /\ iter = 0
    /\ resp = NoResponse
    /\ dec = NoCall
    /\ shutdown = NotShutDown
    /\ hist = Hist0

NextAge ==
    \/ evaluate_availability
    \/ health_request

\* The availability rule and the probe over every poll interval.
SpecAge == InitAge /\ [][NextAge]_vars

\* ------------------------------------------------- the decoder on its own
\* The values a 16-bit holding register can have.
RawValues == 0..(2 ^ 16 - 1)

\* The address the decoder is called on.
DecodeAddress == Schema[1].address

\* process_register(register_map, address, decimals, signed), called as its
\* signature says, on the register dec.raw.
decode_register ==
    /\ pc = "decode"
    /\ dec' = [dec EXCEPT !.once =
                 process_register(PyDict(register_map), PyInt(DecodeAddress),
                                  dec.decimals, dec.signed, FALSE)]
    /\ pc' = "decoded"
    /\ UNCHANGED <<healthVars, shutdown, readerVars, loopVars, clock,
                   last_status, result, iter, resp, hist>>

\* value / 10 ** decimals lies halfway between two multiples of
\* 10 ** -decimals.
IsTie(value) == 2 * (value % Unit) = Unit

\* process_register applied to its own result with the same decimals and
\* signed; at a decimal tie the result is either neighbour.
decode_again ==
    /\ pc = "decoded"
    /\ dec.once.exc = "none"
    /\ \E half_up \in (IF IsTie(dec.once.val) THEN BOOLEAN ELSE {FALSE}) :
         /\ register_map' = (DecodeAddress :> dec.once.val)
         /\ dec' = [dec EXCEPT
                !.half_up = half_up,
                !.twice = process_register(PyDict(register_map'),
                                           PyInt(DecodeAddress), dec.decimals,
                                           dec.signed, half_up)]
    /\ pc' = "redecoded"
    /\ UNCHANGED <<healthVars, shutdown, rm, p, ret, values, loopVars, clock,
                   last_status, result, iter, resp, hist>>

\* Every raw value, 0 to 2 decimals, signed or not.
InitDecode ==
    /\ dec \in {[NoCall EXCEPT !.raw = v, !.decimals = d, !.signed = sg] :
                    v \in RawValues, d \in {0, 1, 2}, sg \in BOOLEAN}
    /\ register_map = (DecodeAddress :> dec.raw * Unit)
    /\ pc = "decode"
    /\ interval = 30
    /\ clock = StartTime
    /\ last_update_ts = StartTime
    /\ mqtt_connected = FALSE
    /\ client = RunningClient
    /\ instrument = OpenInstrument
    /\ inverter = [address |-> 1, last_success_ts |-> 0,
                   publish_counter |-> 0, availability |-> "offline"]
    /\ last_status = PyNone
    /\ rm = [start |-> 0, pages |-> 0]
    /\ p = 0
    /\ ret = 0
    /\ values = <<>>
    /\ result = NoResult
    /\ now = StartTime
    /\ sent = <<>>
    /\ loop_exc = "none"
    /\ iter = 0
    /\ resp = NoResponse
    /\ shutdown = NotShutDown
    /\ hist = Hist0

NextDecode ==
    \/ decode_register
    \/ decode_again

\* The decoder over every register value.
SpecDecode == InitDecode /\ [][NextDecode]_vars

\* -------------------------------------------------- the mapper on its own
\* The two read_modbus calls of lines 518-519: (start_address, pages).
ReadCalls == <<[start |-> 100, pages |-> 3], [start |-> 600, pages |-> 1]>>

\* The register map with every page of both calls stored: each page read
\* answered with Page(fill).
RECURSIVE StoredFrom(_, _, _, _)
StoredFrom(map, call, page, fill) ==
    IF page = call.pages THEN map
    ELSE StoredFrom(merge_page(map, page_address_of(call, page), Page(fill)),
                    call, page + 1, fill)

FullMap(fill) ==
    StoredFrom(StoredFrom(EmptyMap, ReadCalls[1], 0, fill), ReadCalls[2], 0, fill)

\* map without the address a.
Without(map, a) == [x \in DOMAIN map \ {a} |-> map[x]]

SchemaAddresses == {Schema[i].address : i \in 1..Len(Schema)}

\* Register maps handed to get_telemetry: complete, lacking one address of
\* the schema, or empty.
MapperInputs ==
    {FullMap(f) : f \in RawFills} \cup
    {Without(FullMap(f), a) : f \in RawFills, a \in SchemaAddresses} \cup
    {EmptyMap}

\* read_serial_data is at line 522 with a register map from MapperInputs;
\* nothing is remembered, or the snapshot of an earlier cycle is.
InitMapper ==
    /\ register_map \in MapperInputs
    /\ last_status \in {PyNone, PyDict([telemetry |-> Snapshot(50, 220)])}
    /\ hist = [Hist0 EXCEPT !.calls = 2, !.before.last_status = last_status]
    /\ pc = "rm_ret"
    /\ interval = 30
    /\ clock = StartTime
    /\ last_update_ts = StartTime
    /\ mqtt_connected = FALSE
    /\ client = RunningClient
    /\ instrument = OpenInstrument
    /\ inverter = [address |-> 1, last_success_ts |-> 0,
                   publish_counter |-> 0, availability |-> "offline"]
    /\ rm = ReadCalls[2]
    /\ p = 0
    /\ ret = 0
    /\ values = <<>>
    /\ result = NoResult
    /\ now = StartTime
    /\ sent = <<>>
    /\ loop_exc = "none"
    /\ iter = 0
    /\ resp = NoResponse
    /\ dec = NoCall
    /\ shutdown = NotShutDown

NextMapper ==
    \/ read_modbus_return
    \/ main_iteration

\* Lines 522-539 and the iteration's body over every register map of
\* MapperInputs.
SpecMapper == InitMapper /\ [][NextMapper]_vars

\* ------------------------------------------------- the reader on its own
\* read_modbus calls: the two of lines 518-519, and one with the default
\* arguments of line 479.
ReaderCalls == {ReadCalls[1], ReadCalls[2], [start |-> 0, pages |-> 5]}

\* read_modbus has just been called; register_map is empty, or holds a
\* register of an earlier call.
InitReader ==
    /\ rm \in ReaderCalls
    /\ register_map \in {EmptyMap, (1000 :> 0)}
    /\ p = 0
    /\ ret = 0
    /\ values = <<>>
    /\ pc = "rm_page"
    /\ hist = [Hist0 EXCEPT !.calls = 1]
    /\ interval = 30
    /\ clock = StartTime
    /\ last_update_ts = StartTime
    /\ mqtt_connected = FALSE
    /\ client = RunningClient
    /\ instrument = OpenInstrument
    /\ inverter = [address |-> 1, last_success_ts |-> 0,
                   publish_counter |-> 0, availability |-> "offline"]
    /\ last_status = PyNone
    /\ result = NoResult
    /\ now = StartTime
    /\ sent = <<>>
    /\ loop_exc = "none"
    /\ iter = 0
    /\ resp = NoResponse
    /\ dec = NoCall
    /\ shutdown = NotShutDown

NextReader ==
    \/ read_modbus_page
    \/ read_modbus_attempt
    \/ read_modbus_page_end

\* One call of read_modbus against every sequence of answers of the
\* transport.
SpecReader == InitReader /\ [][NextReader]_vars

\* ================================================================ claims
\* maxAge as the specification words it: max(15, 3 x pollInterval + 5).
MaxAgeOf(pollInterval) ==
    IF 3 * pollInterval + 5 > 15 THEN 3 * pollInterval + 5 ELSE 15

\* Messages of the iteration on one topic.
SentOn(topic) == SelectSeq(sent, LAMBDA m : m.topic = topic)

\* The iteration's body has run to its end (line 694).
IterationDone == pc = "sleep" /\ loop_exc = "none"

\* The document this cycle decoded, wrapped as read_serial_data wraps it.
DecodedLog == PyDict([telemetry |-> hist.decoded.val])

\* Age of the device's last success at the iteration's timestamp.
Age == now - inverter.last_success_ts

\* C1: at the end of the availability evaluation of an iteration the stored
\* state is Online exactly when a success has been recorded and it is at most
\* maxAge old at the iteration's timestamp; with pollInterval 30 an age of 94
\* is Online and an age of 96 Offline.
C1_AvailabilityRule ==
    IterationDone =>
        /\ (inverter.availability = "online") <=>
               (inverter.last_success_ts > 0 /\ Age <= MaxAgeOf(interval))
        /\ inverter.availability \in {"online", "offline"}
        /\ (interval = 30 /\ inverter.last_success_ts > 0 /\ Age = 94)
               => inverter.availability = "online"
        /\ (interval = 30 /\ inverter.last_success_ts > 0 /\ Age = 96)
               => inverter.availability = "offline"

\* An iteration at pollInterval 30 that found the device Online with its last
\* success 96 s old, and stored Offline.
C1_Witness ==
    /\ IterationDone
    /\ interval = 30
    /\ inverter.last_success_ts > 0
    /\ Age = 96
    /\ hist.before.availability = "online"
    /\ inverter.availability = "offline"

\* C2: a telemetry message is published only in a successful iteration whose
\* decoded snapshot differs from the previously published one, or in the first
\* successful cycle; none in a failed cycle, none when the snapshot is the
\* remembered one.
C2_TelemetryOnlyOnChange ==
    IterationDone =>
        /\ Len(SentOn(TopicSensors)) <= 1
        /\ Len(SentOn(TopicSensors)) = 1 =>
              /\ result.ok
              /\ hist.decoded.exc = "none"
              /\ \/ hist.before.successes = 0
                 \/ DecodedLog # hist.before.published
        /\ ~result.ok => Len(SentOn(TopicSensors)) = 0
        /\ (result.ok /\ hist.decoded.exc = "none"
              /\ DecodedLog = hist.before.last_status)
              => Len(SentOn(TopicSensors)) = 0

\* A later successful cycle published a changed snapshot.
C2_Witness ==
    /\ IterationDone
    /\ Len(SentOn(TopicSensors)) = 1
    /\ hist.before.successes > 0
    /\ hist.before.published.t = "dict"

\* C3: publishCounter starts at 0 and after every iteration equals the number
\* of cycles that reported success: one more than before after a success, the
\* same as before after a failure.
C3_CounterCountsSuccesses ==
    /\ pc # "body" => inverter.publish_counter = hist.successes
    /\ pc = "sleep" =>
          inverter.publish_counter =
              hist.before.publish_counter + (IF result.ok THEN 1 ELSE 0)
    /\ iter = 0 /\ pc = "cycle" => inverter.publish_counter = 0

\* A failed iteration after two successful ones left the counter at 2.
C3_Witness ==
    /\ pc = "sleep"
    /\ ~result.ok
    /\ hist.before.publish_counter = 2
    /\ inverter.publish_counter = 2

\* The four health facts of the probe.
BrokerConnected == mqtt_connected
BrokerLoopAlive == client.present /\ client.thread = "alive"
SerialOpen ==
    /\ instrument.present
    /\ instrument.serial
    /\ \/ instrument.api = "is_open"
       \/ instrument.api = "isOpen" /\ ~instrument.raises
    /\ instrument.open
Fresh == clock - last_update_ts < MaxAgeOf(interval)

\* C4: a GET on the health path answers 200 exactly when the broker is
\* connected, its network loop is alive, the serial port is open and the last
\* success is younger than maxAge; 503 otherwise.
C4_ProbeConjunction ==
    resp.path = "/health" =>
        /\ resp.code \in {200, 503}
        /\ resp.code = 200 <=>
              (BrokerConnected /\ BrokerLoopAlive /\ SerialOpen /\ Fresh)

\* The probe answered 503 with only the freshness fact false.
C4_Witness ==
    /\ resp.path = "/health"
    /\ resp.code = 503
    /\ BrokerConnected /\ BrokerLoopAlive /\ SerialOpen /\ ~Fresh

\* Addresses of page q of the current read_modbus call.
PageAddresses(q) == {page_address_of(rm, q) + i : i \in 0..(REGISTER_PAGE - 1)}

\* C5: after a paged read, a page whose first 4 attempts failed and whose 5th
\* answered has every one of its addresses in the register map, mapped to the
\* value of the successful attempt.
C5_RetriedPagePopulated ==
    pc = "rm_ret" =>
        \A q \in DOMAIN hist.pageLog :
            hist.pageLog[q].kind = "f4ok" =>
                \A a \in PageAddresses(q) :
                    /\ a \in DOMAIN register_map
                    /\ register_map[a] =
                          hist.pageLog[q].last[a - page_address_of(rm, q) + 1]

\* C6: after a paged read, a page whose 5 attempts all failed has none of its
\* addresses in the register map, and every page of the call was attempted,
\* whatever the earlier pages did.
C6_FailedPageLocal ==
    pc = "rm_ret" =>
        /\ \A q \in DOMAIN hist.pageLog :
              hist.pageLog[q].kind = "allfail" =>
                  PageAddresses(q) \cap DOMAIN register_map = {}
        /\ DOMAIN hist.pageLog = 0..(rm.pages - 1)

\* The two documents differ in battery_soc and in nothing else.
DiffersOnlyInSoc(a, b) ==
    /\ a.t = "dict" /\ b.t = "dict"
    /\ a.v.telemetry.v.normal["battery_soc"] # b.v.telemetry.v.normal["battery_soc"]
    /\ \A f \in FieldNames \ {"battery_soc"} :
          a.v.telemetry.v.normal[f] = b.v.telemetry.v.normal[f]

\* C7: a cycle whose reads and mapping succeeded hands back (snapshot, true)
\* when it is the first successful cycle or the snapshot differs from the
\* remembered one; a snapshot equal to the remembered one is not handed back.
C7_ChangeGate ==
    (pc = "body" /\ hist.decoded.exc = "none") =>
        /\ (hist.before.successes = 0 \/ DecodedLog # hist.before.last_status)
              => result = PollTuple(DecodedLog, TRUE)
        /\ DecodedLog = hist.before.last_status => result.data = PyNone

\* A cycle whose snapshot differs from the remembered one in battery_soc only
\* handed the snapshot back.
C7_Witness ==
    /\ pc = "body"
    /\ hist.decoded.exc = "none"
    /\ DiffersOnlyInSoc(DecodedLog, hist.before.last_status)
    /\ result = PollTuple(DecodedLog, TRUE)

\* The heartbeat messages of the iteration.
Heartbeats == SentOn(TopicHeartbeat)

\* C8: a cycle that decoded the remembered snapshot hands back (None, true);
\* the iteration refreshes both timestamps, adds one to the counter, publishes
\* one heartbeat carrying it, and publishes no telemetry.
C8_UnchangedIsSuccess ==
    (pc \in {"body", "sleep"} /\ hist.decoded.exc = "none"
        /\ DecodedLog = hist.before.last_status) =>
        /\ result = PollTuple(PyNone, TRUE)
        /\ IterationDone =>
              /\ last_update_ts = now
              /\ inverter.last_success_ts = now
              /\ inverter.publish_counter = hist.before.publish_counter + 1
              /\ Len(Heartbeats) = 1
              /\ Heartbeats[1].payload.publish_counter = inverter.publish_counter
              /\ Len(SentOn(TopicSensors)) = 0

\* An iteration ended whose cycle decoded the remembered snapshot.
C8_Witness ==
    /\ IterationDone
    /\ hist.decoded.exc = "none"
    /\ DecodedLog = hist.before.last_status
    /\ Len(Heartbeats) = 1

\* C9: a cycle in which the flush, a register read or the mapping raised hands
\* back (None, false), and no error leaves read_serial_data.
C9_ErrorsContained ==
    (pc = "body" /\ (hist.stage # "none" \/ hist.readFailed)) =>
        result = PollTuple(PyNone, FALSE)

\* A cycle whose flush raised handed back (None, false).
C9_Witness ==
    /\ pc = "body"
    /\ hist.stage = "flush"
    /\ hist.decoded.exc = "SerialException"
    /\ result = PollTuple(PyNone, FALSE)

\* C10: a message is published on the per-device availability topic only in
\* an iteration in which the stored availability state changes.
C10_AvailabilityOnlyOnChange ==
    IterationDone =>
        (Len(SentOn(TopicAvailability)) > 0
            => inverter.availability # hist.before.availability)

\* C11: an iteration publishes a heartbeat exactly when its poll cycle
\* reported success, and the publish_counter a heartbeat carries is greater
\* than the one the previous heartbeat carried.
C11_HeartbeatOnSuccess ==
    pc = "sleep" =>
        /\ Len(Heartbeats) = (IF result.ok THEN 1 ELSE 0)
        /\ Len(Heartbeats) = 1 =>
              /\ Heartbeats[1].payload.publish_counter > hist.before.heartbeat
              /\ hist.heartbeat = Heartbeats[1].payload.publish_counter

\* The third iteration published the second heartbeat, carrying 2: one of
\* the first two iterations failed and published none.
C11_Witness ==
    /\ IterationDone
    /\ result.ok
    /\ Len(Heartbeats) = 1
    /\ hist.before.heartbeat = 1
    /\ hist.before.heartbeat = hist.before.successes
    /\ iter = 2
    /\ Heartbeats[1].payload.publish_counter = 2

\* The process-level pulses of the iteration.
Pulses == SentOn(TopicProcess)

\* C12: every iteration publishes "online" on the process availability
\* topic, once, as its last message: after a cycle that returned a snapshot,
\* after one that found no change, and after one that failed.
C12_PulseEveryIteration ==
    pc = "sleep" =>
        /\ Len(Pulses) = 1
        /\ Pulses[1].payload = "online"
        /\ sent[Len(sent)] = Pulses[1]

\* A failed iteration published the pulse and nothing else.
C12_Witness ==
    /\ pc = "sleep"
    /\ ~result.ok
    /\ hist.before.availability = "offline"
    /\ sent = <<Msg(TopicProcess, "online", FALSE)>>

\* The main thread has left the loop.
LoopLeft == pc \in {"unwind", "exited"}

\* C13: an exception raised inside an iteration never ends the loop: the
\* iteration goes on to the 10 s cooldown and to the next iteration, and the
\* loop is left only when a termination signal arrived.
C13_LoopSurvivesErrors ==
    /\ [](LoopLeft => shutdown.by_signal)
    /\ []((pc = "sleep" /\ loop_exc # "none" /\ iter < MaxRunIter)
            => ENABLED loop_sleep_bounded)
    /\ [][(pc = "body" /\ loop_exc' # "none" /\ ~LoopLeft')
            => pc' = "sleep"]_vars
    /\ [][(pc = "sleep" /\ loop_exc # "none" /\ ~LoopLeft')
            => /\ pc' = "cycle"
               /\ iter' = iter + 1
               /\ clock' >= clock + 10]_vars

\* A new iteration has begun after one in which the heartbeat publish raised.
C13_Witness ==
    /\ pc = "cycle"
    /\ iter = 1
    /\ loop_exc = "ValueError"
    /\ interval = 30
    /\ sent = <<>>
    /\ inverter.publish_counter = 1
    /\ ~shutdown.ran

\* Where graceful_exit first published payload on topic, first made the
\* call named: 0 when it never did.
PublishedAt(topic, payload) ==
    LET hits == {i \in 1..Len(shutdown.effects) :
                    /\ shutdown.effects[i].call = "publish"
                    /\ shutdown.effects[i].msg.topic = topic
                    /\ shutdown.effects[i].msg.payload = payload}
    IN  IF hits = {} THEN 0 ELSE CHOOSE i \in hits : \A j \in hits : i <= j

CalledAt(name) ==
    LET hits == {i \in 1..Len(shutdown.effects) :
                    shutdown.effects[i].call = name}
    IN  IF hits = {} THEN 0 ELSE CHOOSE i \in hits : \A j \in hits : i <= j

\* The signal handler has run graceful_exit and main has not yet reached its
\* finally clause.
HandlerDone == pc = "unwind" /\ shutdown.by_signal

C14_MaxAge ==
    /\ interval >= 0 => _compute_max_age_seconds(interval) = MaxAgeOf(interval)
    /\ _compute_max_age_seconds(interval) >= 15
    /\ interval = 30 => _compute_max_age_seconds(interval) = 95
    /\ interval = 0 => _compute_max_age_seconds(interval) = 15
    /\ pc = "evaluated" =>
          ((inverter.availability = "online") <=>
              (inverter.last_success_ts > 0 /\ Age <= MaxAgeOf(interval)))
    /\ (resp.path = "/health" /\ BrokerConnected /\ BrokerLoopAlive /\ SerialOpen)
          => ((resp.code = 200) <=> Fresh)

\* At pollInterval 30 and age 95 the rule stored Online and the probe, with
\* every other fact true, answered 503; one second earlier it answers 200.
C14_Witness ==
    /\ interval = 30
    /\ pc = "evaluated"
    /\ Age = 95
    /\ inverter.availability = "online"
    /\ clock - last_update_ts = 95
    /\ BrokerConnected /\ BrokerLoopAlive /\ SerialOpen
    /\ resp.path = "/health" /\ resp.code = 503

\* C15: with decimals = 0, decode of a raw value v in 0..65535 is v - 65536
\* when signed and v > 32767, and v otherwise: signed results lie in
\* -32768..32767, decode(65535, 0, signed) is -1, unsigned results are v.
C15_SignedDecode ==
    (pc \in {"decoded", "redecoded"} /\ dec.decimals = 0) =>
        /\ dec.once.exc = "none"
        /\ dec.signed =>
              /\ dec.once.val = (IF dec.raw > 32767 THEN dec.raw - 65536
                                  ELSE dec.raw) * Unit
              /\ dec.once.val >= -32768 * Unit
              /\ dec.once.val <= 32767 * Unit
        /\ ~dec.signed => dec.once.val = dec.raw * Unit
        /\ (dec.signed /\ dec.raw = 65535) => dec.once.val = -1 * Unit

\* decode(32768, 0, signed) gave -32768.
C15_Witness ==
    /\ pc = "decoded"
    /\ dec.raw = 32768 /\ dec.decimals = 0 /\ dec.signed
    /\ dec.once = Returned(-32768 * Unit)

Magnitude(x) == IF x < 0 THEN -x ELSE x

\* C16: with decimals = 0, decoding a decoded value again gives the same
\* value, signed or not; with decimals 1 or 2, decoding a decoded value other
\* than 0 again gives a different value, smaller in magnitude.
C16_IdempotentOnlyUnscaled ==
    pc = "redecoded" =>
        /\ dec.twice.exc = "none"
        /\ dec.decimals = 0 => dec.twice.val = dec.once.val
        /\ (dec.decimals \in {1, 2} /\ dec.once.val # 0) =>
              /\ dec.twice.val # dec.once.val
              /\ Magnitude(dec.twice.val) < Magnitude(dec.once.val)
        /\ dec.once.val = 0 => dec.twice.val = 0

\* decode(2200, 1, unsigned) gave 220.0, and 220.0 decoded again gave 22.0.
C16_Witness ==
    /\ pc = "redecoded"
    /\ dec.raw = 2200 /\ dec.decimals = 1 /\ ~dec.signed
    /\ dec.once = Returned(220 * Unit)
    /\ dec.twice = Returned(22 * Unit)

\* The schema entries whose address the register map lacks.
MissingEntries == {i \in 1..Len(Schema) : Schema[i].address \notin DOMAIN register_map}

\* The mapping of this cycle has run.
Mapped == pc \in {"body", "sleep"} /\ hist.decoded # NotDecoded

\* C17: given a register map with every address of the schema, get_telemetry
\* returns a snapshot in which every field of the schema is present and is
\* decode of the raw value at its address with its decimals and signedness.
C17_CompleteSnapshot ==
    (Mapped /\ MissingEntries = {}) =>
        /\ hist.decoded.exc = "none"
        /\ hist.decoded.val.t = "dict"
        /\ DOMAIN hist.decoded.val.v = {"normal"}
        /\ DOMAIN hist.decoded.val.v.normal = FieldNames
        /\ \A i \in 1..Len(Schema) :
              hist.decoded.val.v.normal[Schema[i].field] =
                  process_register(PyDict(register_map), PyInt(Schema[i].address),
                                   Schema[i].decimals, Schema[i].signed,
                                   FALSE).val

\* C18: when the register map lacks an address of the schema, the mapping
\* raises (the decoder's own lookup of the address is a KeyError), the cycle
\* hands back (None, false), no telemetry is published, and the remembered
\* snapshot stays what it was.
C18_MissingRegisterFails ==
    (Mapped /\ MissingEntries # {}) =>
        /\ hist.decoded.exc # "none"
        /\ result = PollTuple(PyNone, FALSE)
        /\ last_status = hist.before.last_status
        /\ pc = "sleep" =>
              /\ Len(SentOn(TopicSensors)) = 0
              /\ hist.published = hist.before.published
        /\ \A i \in MissingEntries :
              process_register(PyDict(register_map), PyInt(Schema[i].address),
                               Schema[i].decimals, Schema[i].signed, FALSE)
                  = Raised("KeyError")

\* A map lacking only the address of battery_soc: the cycle failed, the
\* iteration published no telemetry, the remembered snapshot is still there.
C18_Witness ==
    /\ Mapped /\ pc = "sleep"
    /\ SchemaAddresses \ DOMAIN register_map = {280}
    /\ result = PollTuple(PyNone, FALSE)
    /\ last_status = PyDict([telemetry |-> Snapshot(50, 220)])
    /\ Len(SentOn(TopicSensors)) = 0

\* The page the transport answered every read of this cycle with.
FixedPage == CHOOSE page \in hist.fills : TRUE

\* decode, by the rule of process_register, of the register at address in
\* the page read at page_address.
DecodedAt(address, page_address, decimals, signed) ==
    process_register(PyDict((address :> FixedPage[address - page_address + 1])),
                     PyInt(address), decimals, signed, FALSE).val

\* C19: when every page read of the first cycle is answered with one fixed
\* page of 124 registers, the cycle hands back (snapshot, true) and the
\* snapshot's battery_voltage, battery_power and energy_today are decode of
\* registers 277 (1 decimal, unsigned), 279 (0 decimals, signed) and 702
\* (2 decimals, unsigned).
C19_EndToEnd ==
    (pc = "body" /\ iter = 0 /\ hist.calls = 2 /\ ~hist.readFailed
        /\ Cardinality(hist.fills) = 1) =>
        /\ result.kind = "tuple"
        /\ result.ok
        /\ result.data.t = "dict"
        /\ LET normal == result.data.v.telemetry.v.normal
           IN  /\ normal["battery_voltage"] = DecodedAt(277, 224, 1, FALSE)
               /\ normal["battery_power"] = DecodedAt(279, 224, 0, TRUE)
               /\ normal["energy_today"] = DecodedAt(702, 600, 2, FALSE)

\* The two availability topics.
AvailabilityTopics == {TopicProcess, TopicAvailability}

\* C22: every message published on the process availability topic or on the
\* per-device availability topic, at startup, in the loop and by graceful
\* shutdown, is published non-retained.
C22_AvailabilityNotRetained ==
    /\ \A i \in 1..Len(sent) :
          sent[i].topic \in AvailabilityTopics => ~sent[i].retain
    /\ \A i \in 1..Len(shutdown.effects) :
          (shutdown.effects[i].call = "publish"
              /\ shutdown.effects[i].msg.topic \in AvailabilityTopics)
              => ~shutdown.effects[i].msg.retain

InReader == pc \in {"rm_page", "rm_read"}

\* The steps read_modbus has still to take at most before it returns.
ReaderRank ==
    IF pc = "rm_page" THEN (rm.pages - p) * (FRAME_READ_RETRIES + 2)
    ELSE IF pc = "rm_read"
         THEN (rm.pages - p) * (FRAME_READ_RETRIES + 2) - 1 - ret
    ELSE 0

\* C27: a paged read makes at most 5 read attempts on a page and at most
\* 5 * pageCount in a call, whatever the transport answers, and it returns:
\* while it runs a next step is always possible and every step brings its
\* return nearer.
C27_BoundedAttempts ==
    /\ []((InReader \/ pc = "rm_ret") =>
            /\ ret <= 5
            /\ hist.attempts <= 5 * rm.pages
            /\ hist.attempts <= 5 * (p + 1)
            /\ p <= rm.pages
            /\ ReaderRank >= 0)
    /\ [](InReader => ENABLED (\/ read_modbus_page
                               \/ read_modbus_attempt
                               \/ read_modbus_page_end))
    /\ [][InReader => (ReaderRank' < ReaderRank /\ p' >= p)]_vars

\* The 3-page call returned after 15 attempts: every page was read 5 times
\* and none answered.
C27_Witness ==
    /\ pc = "rm_ret"
    /\ rm = [start |-> 100, pages |-> 3]
    /\ hist.attempts = 15
    /\ p = 3
    /\ DOMAIN hist.pageLog = {0, 1, 2}

\* C28: the first read attempt of every page of a paged read is made after
\* the 1 s guard wait of that page, with no read between the wait and the
\* attempt, and at address startAddress + 124 * p.
C28_GuardBeforeEachPage ==
    /\ [][(pc = "rm_read" /\ ret = 0 /\ ret' = 1) =>
            /\ hist.guarded
            /\ hist'.read_at = rm.start + 124 * p]_vars
    /\ [][(~hist.guarded /\ hist'.guarded) => clock' >= clock + 1]_vars
    /\ [][hist'.attempts = hist.attempts + 1 => ~hist'.guarded]_vars

\* The third page of the first call was read, at address 348, after its
\* guard wait.
C28_Witness ==
    /\ pc = "rm_read"
    /\ rm.start = 100 /\ p = 2
    /\ ret = 1
    /\ hist.read_at = 348
    /\ hist.attempts = 11

\* C29: the 0.5 s wait is followed by a further read attempt of the same
\* page, and it is not taken for a page whose reads ended with an answer.
C29_DelayBeforeRetry ==
    /\ [][hist'.waits = hist.waits + 1 =>
            /\ pc' = "rm_read"
            /\ p' = p
            /\ ret' < FRAME_READ_RETRIES]_vars
    /\ [][(pc = "rm_read" /\ ret = FRAME_READ_RETRIES /\ Len(values) > 0)
            => hist'.waits = hist.waits]_vars

\* C30: a poll cycle reads the ranges 100..471 and 600..723, which hold
\* every address of the schema, so that a cycle whose reads were all
\* answered has every register of the schema in its map and does not fail
\* for a missing one.
C30_RangesCoverSchema ==
    /\ SchemaAddresses \subseteq (100..471) \cup (600..723)
    /\ (pc = "body" /\ hist.calls = 2 /\ ~hist.readFailed) =>
          /\ DOMAIN register_map = (100..471) \cup (600..723)
          /\ MissingEntries = {}
          /\ hist.decoded.exc # "KeyError"

\* The state the main loop and the broker's notifications write and the probe
\* reads.
SharedState ==
    <<last_update_ts, inverter, mqtt_connected, last_status, client, instrument,
      interval>>

\* C25: answering a probe request, on the health path or any other and with
\* any answer, changes none of the shared state: the timestamps, the
\* counter, the availability state, the connectivity flag and the remembered
\* snapshot are after the request what they were before it, wherever the
\* main loop stands.
C25_ProbeReadsOnly ==
    [][resp' # resp =>
          /\ UNCHANGED SharedState
          /\ UNCHANGED <<clock, pc, result, now, sent, loop_exc, iter, hist>>]_vars

\* The probe answered 200 after a successful iteration: the counter is 1 and
\* the device Online.
C25_Witness ==
    /\ resp.path = "/health" /\ resp.code = 200
    /\ pc = "sleep"
    /\ inverter.publish_counter = 1
    /\ inverter.availability = "online"
    /\ last_update_ts = now

\* C26: the connectivity flag is true exactly when the broker's last
\* notification was a connect with reason code 0: false before any
\* notification, after a refused connect and after a disconnect; and a
\* request on the health path that finds the flag false is answered 503,
\* whatever the answer before was.
C26_ConnectivityFlag ==
    /\ mqtt_connected <=> hist.notified = "connect:0"
    /\ hist.notified \in {"none", "connect:refused", "disconnect"}
          => ~mqtt_connected
    /\ (resp.path = "/health" /\ ~resp.connected) => resp.code = 503

\* The probe answered 200, the broker then disconnected, and the next
\* request was answered 503 with every other health fact still true.
C26_Witness ==
    /\ resp.path = "/health" /\ resp.code = 503 /\ resp.prev = 200
    /\ ~resp.connected
    /\ hist.notified = "disconnect"
    /\ ~mqtt_connected
    /\ BrokerLoopAlive /\ SerialOpen /\ Fresh

\* A call of graceful_exit has returned.
ShutdownDone == pc \in {"unwind", "exited"} /\ shutdown.ran

\* C21: whenever graceful shutdown has finished and the serial port was open
\* when it began, the serial port is closed, also when a publish or the
\* disconnect raised on the way.
C21_SerialReleased ==
    (ShutdownDone /\ shutdown.was_open) => ~_serial_is_open(instrument)

\* Opening the serial device or connecting to the broker failed.
StartupFailed == hist.fatal.stage \in {"mqtt", "serial"}

\* The main thread is in the polling loop.
InLoop == pc \in {"cycle", "rm_page", "rm_read", "rm_ret", "body", "sleep"}

\* C24: when opening the serial device or connecting to the broker raised,
\* whatever the exception, the polling loop is never entered, graceful_exit
\* is run, and the process ends.
C24_FatalStartup ==
    /\ [](StartupFailed =>
            /\ ~InLoop
            /\ pc \in {"unwind", "exited"}
            /\ iter = 0
            /\ hist.successes = 0)
    /\ []((StartupFailed /\ pc = "exited") => shutdown.ran)
    /\ (StartupFailed ~> (pc = "exited" /\ shutdown.ran))

\* The serial device could not be opened with an error other than
\* SerialException, the broker being connected: graceful_exit ran in the
\* finally clause and the process ended.
C24_Witness ==
    /\ hist.fatal = [stage |-> "serial", exc |-> "ValueError"]
    /\ pc = "exited"
    /\ shutdown.ran /\ ~shutdown.by_signal
    /\ shutdown.was_connected

\* The poll cycle of the iteration has returned.
CycleReturned == pc \in {"body", "sleep"} /\ result.kind = "tuple"

\* C31: the remembered snapshot is replaced exactly in the cycles that hand
\* back (snapshot, true), and then it is the snapshot handed back; a cycle
\* that hands back (None, true) or (None, false) leaves it as it was, and
\* after a failed cycle the iteration leaves last_success_ts, last_update_ts
\* and publish_counter as they were.
C31_SnapshotFrame ==
    CycleReturned =>
        /\ (result.ok /\ result.data # PyNone) =>
              /\ last_status = result.data
              /\ last_status # hist.before.last_status
        /\ result.data = PyNone => last_status = hist.before.last_status
        /\ last_status # hist.before.last_status
              => (result.ok /\ result.data # PyNone)
        /\ ~result.ok => result.data = PyNone
        /\ (pc = "sleep" /\ ~result.ok) =>
              /\ inverter.last_success_ts = hist.before.last_success_ts
              /\ last_update_ts = hist.before.last_update_ts
              /\ inverter.publish_counter = hist.before.publish_counter

\* A cycle failed after a successful one: the snapshot remembered before is
\* still remembered, and the timestamps and the counter are those of the
\* success.
C31_Witness ==
    /\ pc = "sleep"
    /\ result = PollTuple(PyNone, FALSE)
    /\ hist.before.last_status.t = "dict"
    /\ last_status = hist.before.last_status
    /\ inverter.publish_counter = 1
    /\ inverter.last_success_ts = hist.before.last_success_ts
    /\ last_update_ts = inverter.last_success_ts
    /\ now > last_update_ts

\* Age of the last successful poll as the probe measures it.
ProbeAge == clock - last_update_ts

\* C32: once a poll has succeeded, at an age of the last success equal to
\* maxAge the availability rule evaluates to Online and the probe's
\* freshness is false, so the probe answers 503; at every other age the rule
\* is Online exactly when the probe's freshness holds, which is when the
\* probe answers 200 with its other three facts true.
C32_BoundaryDisagreement ==
    (pc = "evaluated" /\ inverter.last_success_ts > 0
        /\ resp.path = "/health") =>
        /\ Age = ProbeAge
        /\ Age = MaxAgeOf(interval) =>
              /\ inverter.availability = "online"
              /\ ~Fresh
              /\ resp.code = 503
        /\ Age # MaxAgeOf(interval) =>
              /\ (inverter.availability = "online") <=> Fresh
              /\ (BrokerConnected /\ BrokerLoopAlive /\ SerialOpen) =>
                    ((inverter.availability = "online") <=> (resp.code = 200))

\* At pollInterval 0 and age 15 the rule turned the device Online, which it
\* had stored as Offline, and the probe answered 503 with the broker
\* connected, its loop alive and the serial port open.
C32_Witness ==
    /\ pc = "evaluated"
    /\ interval = 0
    /\ inverter.last_success_ts > 0
    /\ Age = 15 /\ ProbeAge = 15
    /\ inverter.availability = "online"
    /\ sent = <<Msg(TopicAvailability, "online", FALSE)>>
    /\ BrokerConnected /\ BrokerLoopAlive /\ SerialOpen
    /\ resp.path = "/health" /\ resp.code = 503

\* The probe's answer to a /health request made now.
ProbeNow ==
    do_GET("/health", mqtt_connected, client, instrument, clock,
           last_update_ts, interval)

\* C33: the process-wide timestamp has the start time until a poll cycle
\* succeeds, while the device's last_success_ts is 0 and its availability
\* Offline; in that time, with the broker connected, its loop alive and the
\* serial port open, the probe answers 200 exactly while less than maxAge
\* has passed since the start; once a cycle has succeeded and the loop has
\* handled it, the process-wide timestamp equals the device's
\* last_success_ts.
C33_ProcessTimestamp ==
    /\ inverter.last_success_ts = 0 =>
          /\ last_update_ts = StartTime
          /\ inverter.availability = "offline"
          /\ (BrokerConnected /\ BrokerLoopAlive /\ SerialOpen) =>
                (ProbeNow = 200 <=> clock - StartTime < MaxAgeOf(interval))
          /\ (resp.code = 200 \/ resp.prev = 200) =>
                (BrokerConnected /\ BrokerLoopAlive /\ SerialOpen)
    /\ inverter.last_success_ts > 0 =>
          last_update_ts = inverter.last_success_ts
    /\ (pc = "sleep" /\ result.kind = "tuple" /\ result.ok) =>
          /\ inverter.last_success_ts = now
          /\ last_update_ts = now

\* After a first cycle that failed, and later than the start, the probe
\* answered 200 while the device had never been polled with success.
C33_Witness ==
    /\ iter >= 1
    /\ clock > StartTime
    /\ hist.successes = 0
    /\ inverter.last_success_ts = 0
    /\ inverter.availability = "offline"
    /\ last_update_ts = StartTime
    /\ resp.path = "/health" /\ resp.code = 200
    /\ BrokerConnected /\ BrokerLoopAlive /\ SerialOpen
    /\ ProbeNow = 200

\* The messages of this iteration on the per-device availability topic.
AvailabilitySent == SelectSeq(sent, LAMBDA m : m.topic = TopicAvailability)

\* An iteration handled a failed poll cycle of a device that has been polled
\* with success before.
OutageIteration ==
    /\ IterationDone
    /\ result.kind = "tuple" /\ ~result.ok
    /\ inverter.last_success_ts > 0

\* C34: in an iteration that handles a failed cycle after an earlier success,
\* a device stored Online stays Online without a message while the
\* iteration's timestamp is at most maxAge after the last success; in the
\* first such iteration more than maxAge after it the stored state becomes
\* Offline and exactly one message, "offline", goes to the availability
\* topic; in every later failed iteration the state stays Offline and no
\* availability message is published.
C34_OneOfflinePerOutage ==
    OutageIteration =>
        /\ inverter.last_success_ts = hist.before.last_success_ts
        /\ Age > MaxAgeOf(interval) => inverter.availability = "offline"
        /\ (hist.before.availability = "online" /\ Age > MaxAgeOf(interval)) =>
              AvailabilitySent = <<Msg(TopicAvailability, "offline", FALSE)>>
        /\ (hist.before.availability = "online" /\ Age <= MaxAgeOf(interval)) =>
              /\ inverter.availability = "online"
              /\ AvailabilitySent = <<>>
        /\ hist.before.availability = "offline" =>
              /\ inverter.availability = "offline"
              /\ Age > MaxAgeOf(interval)
              /\ AvailabilitySent = <<>>

\* At pollInterval 30 the fifth iteration handled a failed cycle of a device
\* that an earlier iteration of the same outage had already turned Offline:
\* it published nothing on the availability topic.
C34_Witness ==
    /\ OutageIteration
    /\ interval = 30
    /\ iter = MaxIter
    /\ hist.successes = 1
    /\ hist.before.availability = "offline"
    /\ inverter.availability = "offline"
    /\ Age > MaxAgeOf(interval)
    /\ AvailabilitySent = <<>>
    /\ Len(sent) > 0

\* C35: every return of read_serial_data hands main a pair it can unpack at
\* line 657, the return taken when app_state.instrument is not set
\* included, and no iteration ends in the TypeError of a failed unpacking.
C35_ResultUnpacks ==
    /\ pc \in {"body", "sleep"} => result.kind = "tuple"
    /\ pc = "sleep" => loop_exc = "none"

====
